---- MODULE Spec2Model ----
(***************************************************************************)
(* Model of the Drift write-ahead log library:                             *)
(*   WALManager        (packages/lib/src/walmanager/WalManager.ts)         *)
(*   DurabilityManager (packages/lib/src/durablity/DurabilityManager.ts)   *)
(*   DurableWal        (packages/lib/src/client/DurableWal.ts)             *)
(* Strings are sequences of one-character strings, so that appending a     *)
(* line, splitting on newlines and envelope encoding are computed.         *)
(***************************************************************************)
EXTENDS Integers, Sequences, FiniteSets, TLC

\* ------------------------------------------------------------------------
\* Bounds
\* ------------------------------------------------------------------------
\* number of accepted WALManager calls (register, append, truncate, read) explored
MaxCalls == 4
\* number of injected I/O failures explored
MaxFaults == 1

\* number of DurabilityManager.replay calls explored
MaxReplays == 2

\* log names handed to the manager
Names == {"a", "b"}
\* the newline character
NL == "\n"

\* the quote and the backslash characters
QUOTE == "\""
BSL == "\\"
\* payloads handed to WALManager.append
Data == {<<"x">>, <<"y">>}
\* content of a backing file that exists before the process starts
OldContent == <<"o", NL>>

\* DurabilityManager instances
Engines == {"e1", "e2"}
\* DEFAULT_RETRY_CONFIG (DurabilityManager.ts)
DEFAULT_RETRY_CONFIG ==
  [maxRetries |-> 3, initialDelayMs |-> 100, maxDelayMs |-> 5000, backoffMultiplier |-> 2]
\* a retryConfig passed to the constructor
SmallRetryConfig ==
  [maxRetries |-> 1, initialDelayMs |-> 10, maxDelayMs |-> 15, backoffMultiplier |-> 2]
\* the retry configurations explored
RetryConfigs == {DEFAULT_RETRY_CONFIG, SmallRetryConfig}
\* the count arguments of replay explored
Counts == {-1, 0, 1, 5}
\* Math.random() * 2 - 1 in hundredths: the range [-1, 1)
Jitters == {-100, 0, 99}
\* log contents present when a replay is made
Contents ==
  { <<>>,
    <<"l", NL>>,
    <<"l", NL, "m", NL>>,
    <<"l", NL, " ", NL, NL, "m">>,
    <<" ", NL, NL, "\t", NL>> }

\* the contents DurableWal.append is called with
ClientPayloads == { <<>>, <<" ", NL>>, <<"A">>, <<" ", "B", NL, QUOTE, BSL, "n">> }

\* the numbers DurableWal.inspect is called with
InspectCounts == {-1, 0, 2}

\* the values Date.now() returns
Timestamps == {7, 12}

\* the content of the log when a DurableWal starts to work on it: empty, a
\* line written without the envelope, a line that is a JSON number
ClientContents == { <<>>, <<"l", NL>>, <<"5", NL>> }

VARIABLES
  names,        \* the log names the application works with
  dirExists,    \* the base directory exists on disk
  exists,       \* exists[n]: the backing file of n exists on disk
  content,      \* content[n]: the characters of the backing file of n
  content0,     \* content[n] when the process started (history variable)
  logs,         \* WALManager._logs (its key set)
  registering,  \* WALManager._registering
  pendingOps,   \* WALManager._pendingOps: name -> index in ops, 0 = no entry
  ops,          \* every append/truncate call: its chained promise and outcome
  reads,        \* every read call
  regs,         \* every register call
  notreg,       \* the names on which a call was rejected as not registered
  faults,       \* I/O failures injected so far
  walFileName,  \* DurabilityManager.walFileName of each instance
  retryConfig,  \* DurabilityManager.retryConfig of each instance
  isReplaying,  \* DurabilityManager.isReplaying of each instance
  replays,      \* every DurabilityManager.replay call
  entries,      \* every entry DurableWal.append handed to the manager
  inspects,     \* every DurableWal.inspect call that reached the read
  invalid,      \* the DurableWal calls rejected for their argument
  counts,       \* every DurableWal.getEntryCount call that reached the read
  builders,     \* WALBuilder._fileName of every builder made by WAL.builder()
  wals          \* every call of WALBuilder.build and of the WAL constructor

vars == <<names, dirExists, exists, content, content0, logs, registering,
          pendingOps, ops, reads, regs, notreg, faults,
          walFileName, retryConfig, isReplaying, replays,
          entries, inspects, invalid, counts, builders, wals>>

\* the builders and the log handles
walVars == <<builders, wals>>

\* the state of the DurabilityManager instances
engVars == <<walFileName, retryConfig, isReplaying, replays>>

\* the history of the DurableWal calls
cliVars == <<entries, inspects, invalid, counts>>

\* ------------------------------------------------------------------------
\* WALManager
\* ------------------------------------------------------------------------

\* another call may be explored
Budget == Len(regs) + Len(ops) + Len(reads) < MaxCalls

\* the promise has settled
Settled(st) == st \in {"ok", "err"}

\* WalManager.ts:81  previousOp = this._pendingOps.get(fileName) || Promise.resolve()
AppendPrevNone(n) == 0
AppendPrevShared(n) == IF ops = <<>> \/ Settled(ops[Len(ops)].st) THEN 0 ELSE Len(ops)
AppendPrev(n) == pendingOps[n]

\* WalManager.ts:135 previousOp = this._pendingOps.get(fileName) || Promise.resolve()
TruncatePrevNone(n) == 0
TruncatePrev(n) == pendingOps[n]

\* WalManager.ts:114 pendingOp = this._pendingOps.get(fileName)
ReadWaitOnNone(n) == 0
ReadWaitOn(n) == pendingOps[n]

\* WalManager.ts:84  appendFile(filePath, data + "\n")
AppendFileNoNewline(c, d) == c \o d
AppendFile(c, d) == c \o d \o <<NL>>

\* WalManager.ts:138 writeFile(filePath, "")
WriteFileEmpty(c) == <<>>

\* the effect of operation o on file content c
Effect(o, c) == IF o.kind = "append" THEN AppendFile(c, o.data) ELSE WriteFileEmpty(c)

\* state of previousOp.then(...) right after the call: the callback of a
\* promise chained on a fulfilled promise starts its I/O, one chained on a
\* rejected promise is rejected without running
ChainedState(prev) ==
  IF prev = 0 THEN "running"
  ELSE IF ops[prev].st = "ok" THEN "running"
  ELSE IF ops[prev].st = "err" THEN "err"
  ELSE "waiting"

\* j is chained, directly or not, on i
RECURSIVE IsDesc(_, _)
IsDesc(j, i) ==
  /\ j > i
  /\ ops[j].prev # 0
  /\ (ops[j].prev = i \/ IsDesc(ops[j].prev, i))

\* state of a read right after the call
ReadState(w) ==
  IF w = 0 THEN "reading"
  ELSE IF ops[w].st = "ok" THEN "reading"
  ELSE IF ops[w].st = "err" THEN "err"
  ELSE "waiting"

\* ------------------------------------------------------------------------
\* DurabilityManager: pure parts
\* ------------------------------------------------------------------------

\* the position of the j-th newline of s; 0 for j = 0 and Len(s) + 1 when s
\* has fewer than j newlines
NewlineAt(s, j) ==
  LET P == {i \in DOMAIN s : s[i] = NL} IN
  IF j = 0 THEN 0
  ELSE IF j > Cardinality(P) THEN Len(s) + 1
  ELSE CHOOSE p \in P : Cardinality({q \in P : q < p}) = j - 1

\* content.split("\n"): the pieces of s between its newlines, one more than
\* there are newlines
Split(s) ==
  [j \in 1 .. Cardinality({i \in DOMAIN s : s[i] = NL}) + 1 |->
     SubSeq(s, NewlineAt(s, j - 1) + 1, NewlineAt(s, j) - 1)]

\* the characters String.prototype.trim removes
IsSpace(ch) == ch \in {" ", "\t", "\r", NL}

\* line.trim()
RECURSIVE TrimLeft(_)
TrimLeft(l) == IF l # <<>> /\ IsSpace(Head(l)) THEN TrimLeft(Tail(l)) ELSE l

RECURSIVE TrimRight(_)
TrimRight(l) ==
  IF l # <<>> /\ IsSpace(l[Len(l)]) THEN TrimRight(SubSeq(l, 1, Len(l) - 1)) ELSE l

Trim(l) == TrimRight(TrimLeft(l))

\* content.split("\n").filter((line) => line.trim().length > 0)
KeepsLineAlways(l) == TRUE
KeepsLine(l) == Len(Trim(l)) > 0

Events(text) == SelectSeq(Split(text), KeepsLine)

\* Array.prototype.slice(start) with one argument
Slice(a, start) ==
  LET from == IF start < 0
                THEN (IF Len(a) + start < 0 THEN 0 ELSE Len(a) + start)
                ELSE (IF start > Len(a) THEN Len(a) ELSE start)
  IN SubSeq(a, from + 1, Len(a))

\* count <= 0 ? [] : events.slice(-count)
EventsToReplayUnguarded(events, count) == Slice(events, -count)
EventsToReplay(events, count) == IF count <= 0 THEN <<>> ELSE Slice(events, -count)

\* the loop of processEventWithRetry goes on after a failed attempt:
\* attempt < this.retryConfig.maxRetries
AttemptsRemainOffByOne(cfg, attempt) == attempt + 1 < cfg.maxRetries
AttemptsRemain(cfg, attempt) == attempt < cfg.maxRetries

\* Math.pow(b, e) for a natural exponent
RECURSIVE Pow(_, _)
Pow(b, e) == IF e = 0 THEN 1 ELSE b * Pow(b, e - 1)

Min(a, b) == IF a <= b THEN a ELSE b

\* calculateBackoffDelay(attempt), j being (Math.random() * 2 - 1) in hundredths:
\* floor(capped + capped * 0.25 * j / 100)
CappedDelayUncapped(cfg, attempt) ==
  cfg.initialDelayMs * Pow(cfg.backoffMultiplier, attempt)
CappedDelay(cfg, attempt) ==
  Min(cfg.initialDelayMs * Pow(cfg.backoffMultiplier, attempt), cfg.maxDelayMs)

CalculateBackoffDelay(cfg, attempt, j) ==
  (CappedDelay(cfg, attempt) * 400 + CappedDelay(cfg, attempt) * j) \div 400

\* ------------------------------------------------------------------------
\* DurableWal: the envelope encoding (JSON.stringify, JSON.parse)
\* ------------------------------------------------------------------------

\* JSON values: strings, numbers (their digits), the literals, objects (a
\* sequence of <<key, value>> members) and arrays (a sequence of values)
JStr(chars) == [t |-> "str", s |-> chars, kv |-> <<>>]
JNum(chars) == [t |-> "num", s |-> chars, kv |-> <<>>]
JLit(name) == [t |-> name, s |-> <<>>, kv |-> <<>>]
JObj(members) == [t |-> "obj", s |-> <<>>, kv |-> members]
JArr(vals) == [t |-> "arr", s |-> <<>>, kv |-> vals]
\* the JavaScript value undefined
JUndefined == [t |-> "undefined", s |-> <<>>, kv |-> <<>>]

\* the decimal digits of a natural number
DigitChar(d) == <<"0", "1", "2", "3", "4", "5", "6", "7", "8", "9">>[d + 1]

RECURSIVE Digits(_)
Digits(n) == IF n < 10 THEN <<DigitChar(n)>> ELSE Digits(n \div 10) \o <<DigitChar(n % 10)>>

\* JSON.stringify of one character of a string
EscapeCharNone(ch) == <<ch>>
EscapeChar(ch) ==
  IF ch = QUOTE THEN <<BSL, QUOTE>>
  ELSE IF ch = BSL THEN <<BSL, BSL>>
  ELSE IF ch = NL THEN <<BSL, "n">>
  ELSE IF ch = "\t" THEN <<BSL, "t">>
  ELSE IF ch = "\r" THEN <<BSL, "r">>
  ELSE <<ch>>

RECURSIVE EscapeAll(_)
EscapeAll(chars) == IF chars = <<>> THEN <<>> ELSE EscapeChar(Head(chars)) \o EscapeAll(Tail(chars))

\* JSON.stringify of a string
Quote(chars) == <<QUOTE>> \o EscapeAll(chars) \o <<QUOTE>>

\* the property names of WalEntry
KeyId == <<"i", "d">>
KeyTimestamp == <<"t", "i", "m", "e", "s", "t", "a", "m", "p">>
KeyData == <<"d", "a", "t", "a">>

\* JSON.stringify(entry) for entry = { id, timestamp, data }
Stringify(entry) ==
  <<"{">> \o Quote(KeyId) \o <<":">> \o Quote(entry.id) \o <<",">>
          \o Quote(KeyTimestamp) \o <<":">> \o Digits(entry.timestamp) \o <<",">>
          \o Quote(KeyData) \o <<":">> \o Quote(entry.data) \o <<"}">>

\* the result of a failed parse step
ParseFail == [ok |-> FALSE, v |-> JUndefined, p |-> 0]
ParseOk(v, p) == [ok |-> TRUE, v |-> v, p |-> p]

\* JSON whitespace
IsJsonWs(ch) == ch \in {" ", "\t", "\r", NL}

RECURSIVE SkipWs(_, _)
SkipWs(s, p) == IF p <= Len(s) /\ IsJsonWs(s[p]) THEN SkipWs(s, p + 1) ELSE p

IsDigit(ch) == ch \in {"0", "1", "2", "3", "4", "5", "6", "7", "8", "9"}

\* the characters of a JSON string from p on, after the opening quote
RECURSIVE ScanString(_, _, _)
ScanString(s, p, acc) ==
  IF p > Len(s) THEN ParseFail
  ELSE IF s[p] = QUOTE THEN ParseOk(JStr(acc), p + 1)
  ELSE IF s[p] \in {NL, "\t", "\r"} THEN ParseFail
  ELSE IF s[p] = BSL
    THEN IF p + 1 > Len(s) THEN ParseFail
         ELSE IF s[p + 1] \in {QUOTE, BSL, "/"} THEN ScanString(s, p + 2, Append(acc, s[p + 1]))
         ELSE IF s[p + 1] = "n" THEN ScanString(s, p + 2, Append(acc, NL))
         ELSE IF s[p + 1] = "t" THEN ScanString(s, p + 2, Append(acc, "\t"))
         ELSE IF s[p + 1] = "r" THEN ScanString(s, p + 2, Append(acc, "\r"))
         ELSE ParseFail
  ELSE ScanString(s, p + 1, Append(acc, s[p]))

\* the digits of s from p on
RECURSIVE ScanDigits(_, _, _)
ScanDigits(s, p, acc) ==
  IF p <= Len(s) /\ IsDigit(s[p]) THEN ScanDigits(s, p + 1, Append(acc, s[p]))
  ELSE [chars |-> acc, p |-> p]

\* a JSON integer at p: an optional minus, then 0 or digits without leading 0
ParseNumber(s, p) ==
  LET q == IF s[p] = "-" THEN p + 1 ELSE p
      d == ScanDigits(s, q, <<>>)
  IN IF d.chars = <<>> \/ (Len(d.chars) > 1 /\ d.chars[1] = "0") THEN ParseFail
     ELSE ParseOk(JNum(SubSeq(s, p, d.p - 1)), d.p)

\* the literal word w at p
ParseWord(s, p, w, v) ==
  IF p + Len(w) - 1 <= Len(s) /\ SubSeq(s, p, p + Len(w) - 1) = w
    THEN ParseOk(v, p + Len(w)) ELSE ParseFail

RECURSIVE ParseValue(_, _)
RECURSIVE ParseMembers(_, _, _)
RECURSIVE ParseElements(_, _, _)

\* the members of an object from p on, the opening brace or a comma read
ParseMembers(s, p, acc) ==
  LET q == SkipWs(s, p) IN
  IF q > Len(s) \/ s[q] # QUOTE THEN ParseFail
  ELSE LET k == ScanString(s, q + 1, <<>>) IN
       IF ~k.ok THEN ParseFail
       ELSE LET c == SkipWs(s, k.p) IN
            IF c > Len(s) \/ s[c] # ":" THEN ParseFail
            ELSE LET v == ParseValue(s, c + 1) IN
                 IF ~v.ok THEN ParseFail
                 ELSE LET e == SkipWs(s, v.p)
                          acc1 == Append(acc, <<k.v.s, v.v>>)
                      IN IF e > Len(s) THEN ParseFail
                         ELSE IF s[e] = "}" THEN ParseOk(JObj(acc1), e + 1)
                         ELSE IF s[e] = "," THEN ParseMembers(s, e + 1, acc1)
                         ELSE ParseFail

\* the elements of an array from p on, the opening bracket or a comma read
ParseElements(s, p, acc) ==
  LET v == ParseValue(s, p) IN
  IF ~v.ok THEN ParseFail
  ELSE LET e == SkipWs(s, v.p)
           acc1 == Append(acc, v.v)
       IN IF e > Len(s) THEN ParseFail
          ELSE IF s[e] = "]" THEN ParseOk(JArr(acc1), e + 1)
          ELSE IF s[e] = "," THEN ParseElements(s, e + 1, acc1)
          ELSE ParseFail

\* a JSON value at p, after whitespace
ParseValue(s, p) ==
  LET q == SkipWs(s, p) IN
  IF q > Len(s) THEN ParseFail
  ELSE IF s[q] = QUOTE THEN ScanString(s, q + 1, <<>>)
  ELSE IF s[q] = "-" \/ IsDigit(s[q]) THEN ParseNumber(s, q)
  ELSE IF s[q] = "t" THEN ParseWord(s, q, <<"t", "r", "u", "e">>, JLit("true"))
  ELSE IF s[q] = "f" THEN ParseWord(s, q, <<"f", "a", "l", "s", "e">>, JLit("false"))
  ELSE IF s[q] = "n" THEN ParseWord(s, q, <<"n", "u", "l", "l">>, JLit("null"))
  ELSE IF s[q] = "{"
    THEN (IF SkipWs(s, q + 1) <= Len(s) /\ s[SkipWs(s, q + 1)] = "}"
            THEN ParseOk(JObj(<<>>), SkipWs(s, q + 1) + 1)
            ELSE ParseMembers(s, q + 1, <<>>))
  ELSE IF s[q] = "["
    THEN (IF SkipWs(s, q + 1) <= Len(s) /\ s[SkipWs(s, q + 1)] = "]"
            THEN ParseOk(JArr(<<>>), SkipWs(s, q + 1) + 1)
            ELSE ParseElements(s, q + 1, <<>>))
  ELSE ParseFail

\* JSON.parse(text): one value, whitespace around it, nothing else
JsonParse(text) ==
  LET r == ParseValue(text, 1) IN
  IF r.ok /\ SkipWs(text, r.p) > Len(text) THEN r ELSE ParseFail

\* entry.data for a parsed value that is not null: the last member named data
\* of an object, undefined for an object without it and for any other value
RECURSIVE Member(_, _, _)
Member(members, key, i) ==
  IF i = 0 THEN JUndefined
  ELSE IF members[i][1] = key THEN members[i][2]
  ELSE Member(members, key, i - 1)

DataOf(v) == IF v.t = "obj" THEN Member(v.kv, KeyData, Len(v.kv)) ELSE JUndefined

\* try { return JSON.parse(line).data } catch { return line }: reading a
\* property of null throws like a failed parse
DecodeLine(line) ==
  LET r == JsonParse(line) IN
  IF ~r.ok \/ r.v.t = "null" THEN JStr(line) ELSE DataOf(r.v)

\* ------------------------------------------------------------------------
\* DurabilityManager.replay: the calls
\* ------------------------------------------------------------------------

\* the records whose processing the loop of replay starts on entry: it awaits
\* each record before the next, so only the first
FirstBatchAll(window) == DOMAIN window
FirstBatch(window) == IF window = <<>> THEN {} ELSE {1}

\* an entry of the log of a replay call: what happened to record rec
Ev(ev, rec, n) == [ev |-> ev, rec |-> rec, n |-> n]

\* the state of one record of the window
IdleRec == [st |-> "idle", attempt |-> 0, delay |-> 0]

\* the ReplayResult under construction
EmptyResult == [success |-> TRUE, processedCount |-> 0, failedCount |-> 0, errors |-> <<>>]

\* the outcome of DurableWal.replay: none yet, resolved, or rejected with
\* "Replay failed: <failedCount> events failed out of <total>"
NoOutcome == [st |-> "", failedCount |-> 0, total |-> 0]

\* an invocation of the caller's processor by the wrapper of DurableWal.replay:
\* on record rec, in attempt n of the engine, with argument arg, from the try
\* block (stage "data") or from the catch block (stage "raw")
PEv(rec, n, arg, stage) == [rec |-> rec, n |-> n, arg |-> arg, stage |-> stage]

\* the first invocation the wrapper makes for a line: processor(entry.data)
\* when JSON.parse returns a value whose data can be read, processor(line)
\* from the catch block when JSON.parse or the read of data throws
FirstInvocation(line, rec, n) ==
  LET r == JsonParse(line) IN
  IF ~r.ok \/ r.v.t = "null" THEN PEv(rec, n, JStr(line), "raw")
  ELSE PEv(rec, n, DataOf(r.v), "data")

\* the invocation the wrapper makes when processor(entry.data) was rejected:
\* the catch block calls processor(serialized)
CatchInvocation(line, rec, n) == PEv(rec, n, JStr(line), "raw")

\* a replay call is running
Running(c) == c.st \in {"reading", "processing"}

\* What is kept of the calls that have ended once their caller makes another
\* call: the instance and the way the call ended.
Past(c) ==
  IF c.st \in {"done", "threw", "rejected"}
    THEN [eng |-> c.eng, count |-> 0, st |-> "past", end |-> c.st, rd |-> 0, during |-> {},
          window |-> <<>>, recs |-> <<>>, result |-> EmptyResult, log |-> <<>>,
          wrapped |-> c.wrapped, plog |-> <<>>, outcome |-> NoOutcome]
    ELSE c

Forget(cs) == [k \in DOMAIN cs |-> Past(cs[k])]

\* this.isReplaying = false in the finally block, on return and on throw
ReleaseSkipped(g, e) == g
ReleaseOnReturn(g, e) == [g EXCEPT ![e] = FALSE]

ReleaseOnThrowSkipped(g, e) == g
ReleaseOnThrow(g, e) == [g EXCEPT ![e] = FALSE]

\* if (this.isReplaying) throw
GuardNever(e) == FALSE
GuardTaken(e) == isReplaying[e]

\* the invocations made when the idle records of batch b, from i on, start
RECURSIVE InvokeEvents(_, _, _)
InvokeEvents(c, b, i) ==
  IF i > Len(c.recs) THEN <<>>
  ELSE (IF i \in b /\ c.recs[i].st = "idle" THEN <<Ev("invoke", i, 0)>> ELSE <<>>)
       \o InvokeEvents(c, b, i + 1)

\* the invocations of the caller's processor made by the wrapper when the
\* idle records of batch b, from i on, start
RECURSIVE WrapperInvocations(_, _, _)
WrapperInvocations(c, b, i) ==
  IF i > Len(c.recs) THEN <<>>
  ELSE (IF c.wrapped /\ i \in b /\ c.recs[i].st = "idle"
          THEN <<FirstInvocation(c.window[i], i, 0)>> ELSE <<>>)
       \o WrapperInvocations(c, b, i + 1)

\* the records of batch b start their first attempt: processor(event) is called
StartRecs(c, b) ==
  [c EXCEPT !.recs = [i \in DOMAIN c.recs |->
                        IF i \in b /\ c.recs[i].st = "idle"
                          THEN [st |-> "invoking", attempt |-> 0, delay |-> 0]
                          ELSE c.recs[i]],
            !.log = c.log \o InvokeEvents(c, b, 1),
            !.plog = c.plog \o WrapperInvocations(c, b, 1)]

\* what DurableWal.replay does with the result of the engine
ReplayOutcomeResolved(result) == [st |-> "resolved", failedCount |-> 0, total |-> 0]
ReplayOutcome(result) ==
  IF ~result.success
    THEN [st |-> "failed", failedCount |-> result.failedCount,
          total |-> result.processedCount + result.failedCount]
    ELSE [st |-> "resolved", failedCount |-> 0, total |-> 0]

\* replay returns its result; a call made by DurableWal.replay goes on with it
Returned(c) ==
  IF c.wrapped THEN [c EXCEPT !.st = "done", !.outcome = ReplayOutcome(c.result)]
  ELSE [c EXCEPT !.st = "done"]

\* the call after walManager.read returned text: the window is selected and
\* the loop entered; an empty window returns the result at once
AfterRead(c, text) ==
  LET w == EventsToReplay(Events(text), c.count)
      c1 == [c EXCEPT !.window = w, !.recs = [i \in DOMAIN w |-> IdleRec],
                      !.result = EmptyResult]
  IN IF w = <<>> THEN Returned(c1)
     ELSE StartRecs([c1 EXCEPT !.st = "processing"], FirstBatch(w))

\* the loop of replay after the final outcome of record i: the next record
\* starts, or the result is returned
AdvanceNoReturn(c, i) ==
  IF i < Len(c.window) THEN StartRecs(c, {i + 1}) ELSE c
AdvanceRereads(c, i) ==
  IF i < Min(Len(c.window), Len(Events(content[walFileName[c.eng]])))
    THEN StartRecs(c, {i + 1}) ELSE Returned(c)
AdvanceStopOnFailure(c, i) ==
  IF c.recs[i].st = "failed" THEN Returned(c)
  ELSE IF i < Len(c.window) THEN StartRecs(c, {i + 1}) ELSE Returned(c)
Advance(c, i) ==
  IF i < Len(c.window) THEN StartRecs(c, {i + 1}) ELSE Returned(c)

\* ------------------------------------------------------------------------
\* DurableWal: append and inspect
\* ------------------------------------------------------------------------

\* the calls made so far, those rejected for their argument included, are
\* fewer than MaxCalls
ClientBudget == Len(regs) + Len(ops) + Len(reads) + Cardinality(invalid) < MaxCalls

\* !content || content.trim().length === 0
RejectsContentEmpty(c) == c = <<>>
RejectsContent(c) == c = <<>> \/ Len(Trim(c)) = 0

\* randomUUID() of the k-th accepted entry: a fresh identifier
RandomUUID(k) == <<"u">> \o Digits(k)

\* numberOfEvents <= 0 ? [] : lines.slice(-numberOfEvents)
LastN(lines, numberOfEvents) ==
  IF numberOfEvents <= 0 THEN <<>> ELSE Slice(lines, -numberOfEvents)

\* the array inspect returns for the file content text
InspectResult(text, numberOfEvents) ==
  LET lastN == LastN(Events(text), numberOfEvents)
  IN [i \in DOMAIN lastN |-> DecodeLine(lastN[i])]

\* inspect goes on after its read returned text
InspectAfterRead(call, text) ==
  [call EXCEPT !.st = "ok", !.result = InspectResult(text, call.count)]

Init ==
  /\ names = {"a"}
  /\ dirExists \in BOOLEAN
  /\ exists \in [Names -> BOOLEAN]
  /\ \A n \in Names : exists[n] => dirExists
  /\ exists["b"] = FALSE
  /\ content = [n \in Names |-> IF exists[n] THEN OldContent ELSE <<>>]
  /\ content0 = content
  /\ logs = {}
  /\ registering = {}
  /\ pendingOps = [n \in Names |-> 0]
  /\ ops = <<>>
  /\ reads = <<>>
  /\ regs = <<>>
  /\ notreg = {}
  /\ faults = 0
  /\ walFileName = [e \in Engines |-> "a"]
  /\ retryConfig = [e \in Engines |-> DEFAULT_RETRY_CONFIG]
  /\ isReplaying = [e \in Engines |-> FALSE]
  /\ replays = <<>>
  /\ entries = <<>>
  /\ inspects = <<>>
  /\ invalid = {}
  /\ counts = <<>>
  /\ builders = <<>>
  /\ wals = <<>>

\* WALManager.register up to its first await (WalManager.ts:37-50)
CallRegisterUnguarded(n) ==
  /\ UNCHANGED <<engVars, cliVars>>
  /\ Budget
  /\ IF n \in logs
       THEN /\ regs' = Append(regs, [name |-> n, pc |-> "noop"])
            /\ UNCHANGED registering
       ELSE /\ regs' = Append(regs, [name |-> n, pc |-> "mkdir"])
            /\ registering' = registering \cup {n}
  /\ UNCHANGED <<walVars, names, dirExists, exists, content, content0, logs, pendingOps, ops, reads, notreg, faults>>
CallRegister(n) ==
  /\ UNCHANGED <<engVars, cliVars>>
  /\ Budget
  /\ IF n \in registering
       THEN /\ regs' = Append(regs, [name |-> n, pc |-> "rejected"])
            /\ UNCHANGED registering
       ELSE IF n \in logs
         THEN /\ regs' = Append(regs, [name |-> n, pc |-> "noop"])
              /\ UNCHANGED registering
         ELSE /\ regs' = Append(regs, [name |-> n, pc |-> "mkdir"])
              /\ registering' = registering \cup {n}
  /\ UNCHANGED <<walVars, names, dirExists, exists, content, content0, logs, pendingOps, ops, reads, notreg, faults>>

\* ensureBaseDir() completes; on success the name is recorded and access()
\* is issued (WalManager.ts:50-56), on failure the finally block runs
RegMkdirDone(i, ok) ==
  /\ UNCHANGED <<engVars, cliVars>>
  /\ regs[i].pc = "mkdir"
  /\ IF ok
       THEN /\ dirExists' = TRUE
            /\ logs' = logs \cup {regs[i].name}
            /\ regs' = [regs EXCEPT ![i].pc = "access"]
            /\ UNCHANGED <<registering, faults>>
       ELSE /\ faults < MaxFaults
            /\ faults' = faults + 1
            /\ regs' = [regs EXCEPT ![i].pc = "err"]
            /\ registering' = registering \ {regs[i].name}
            /\ UNCHANGED <<dirExists, logs>>
  /\ UNCHANGED <<walVars, names, exists, content, content0, pendingOps, ops, reads, notreg>>

\* access() completes: an existing file ends the registration, a missing one
\* makes register issue writeFile(filePath, "") (WalManager.ts:55-60)
RegAccessDoneAlwaysWrites(i) ==
  /\ UNCHANGED <<engVars, cliVars>>
  /\ regs[i].pc = "access"
  /\ regs' = [regs EXCEPT ![i].pc = "write"]
  /\ UNCHANGED <<walVars, names, dirExists, exists, content, content0, logs, registering, pendingOps,
                 ops, reads, notreg, faults>>
RegAccessDone(i) ==
  /\ UNCHANGED <<engVars, cliVars>>
  /\ regs[i].pc = "access"
  /\ IF exists[regs[i].name]
       THEN /\ regs' = [regs EXCEPT ![i].pc = "ok"]
            /\ registering' = registering \ {regs[i].name}
       ELSE /\ regs' = [regs EXCEPT ![i].pc = "write"]
            /\ UNCHANGED registering
  /\ UNCHANGED <<walVars, names, dirExists, exists, content, content0, logs, pendingOps, ops, reads, notreg, faults>>

\* writeFile(filePath, "") of register completes (WalManager.ts:59-63)
RegWriteDone(i, ok) ==
  /\ UNCHANGED <<engVars, cliVars>>
  /\ regs[i].pc = "write"
  /\ IF ok
       THEN /\ exists' = [exists EXCEPT ![regs[i].name] = TRUE]
            /\ content' = [content EXCEPT ![regs[i].name] = WriteFileEmpty(@)]
            /\ regs' = [regs EXCEPT ![i].pc = "ok"]
            /\ UNCHANGED faults
       ELSE /\ faults < MaxFaults
            /\ faults' = faults + 1
            /\ regs' = [regs EXCEPT ![i].pc = "err"]
            /\ UNCHANGED <<exists, content>>
  /\ registering' = registering \ {regs[i].name}
  /\ UNCHANGED <<walVars, names, dirExists, content0, logs, pendingOps, ops, reads, notreg>>

\* the synchronous part of append and truncate: the registration check, the
\* chaining on the previous operation and the update of _pendingOps
SubmitUnchecked(n, kind, d, prev) ==
  /\ UNCHANGED engVars
  /\ Budget
  /\ ops' = Append(ops, [name |-> n, kind |-> kind, data |-> d, prev |-> prev,
                         st |-> ChainedState(prev),
                         early |-> n \in registering])
  /\ pendingOps' = [pendingOps EXCEPT ![n] =
                      IF ChainedState(prev) = "err" THEN @ ELSE Len(ops) + 1]
  /\ UNCHANGED <<walVars, names, dirExists, exists, content, content0, logs, registering,
                 reads, regs, notreg, faults>>
Submit(n, kind, d, prev) ==
  /\ UNCHANGED engVars
  /\ IF n \notin logs
       THEN /\ notreg' = notreg \cup {n}
            /\ UNCHANGED <<walVars, names, dirExists, exists, content, content0, logs, registering,
                           pendingOps, ops, reads, regs, faults>>
       ELSE /\ Budget
            /\ ops' = Append(ops, [name |-> n, kind |-> kind, data |-> d, prev |-> prev,
                                   st |-> ChainedState(prev),
                                   early |-> n \in registering])
            /\ pendingOps' = [pendingOps EXCEPT ![n] =
                                IF ChainedState(prev) = "err" THEN @ ELSE Len(ops) + 1]
            /\ UNCHANGED <<walVars, names, dirExists, exists, content, content0, logs, registering,
                           reads, regs, notreg, faults>>

\* WALManager.append up to its await (WalManager.ts:72-90)
CallAppend(n, d) == Submit(n, "append", d, AppendPrev(n)) /\ UNCHANGED cliVars

\* WALManager.truncate up to its await (WalManager.ts:126-144)
CallTruncate(n) == Submit(n, "truncate", <<>>, TruncatePrev(n)) /\ UNCHANGED cliVars

\* the replay calls after the reads of the calls in S were rejected: the error
\* leaves replay through its finally block
ReplaysAfterThrowSwallowed(S) ==
  [c \in DOMAIN replays |-> IF c \in S THEN Returned(replays[c]) ELSE replays[c]]
ReplaysAfterThrow(S) ==
  [c \in DOMAIN replays |-> IF c \in S THEN [replays[c] EXCEPT !.st = "threw"] ELSE replays[c]]

GuardAfterThrow(S) ==
  [e \in Engines |->
     IF \E c \in S : replays[c].eng = e THEN ReleaseOnThrow(isReplaying, e)[e]
     ELSE isReplaying[e]]

\* the replay calls whose pending read is rejected when operation i fails
FailedOwners(i) ==
  {reads[r].owner : r \in {q \in DOMAIN reads :
                             /\ reads[q].st = "waiting"
                             /\ reads[q].owner > 0
                             /\ (reads[q].waitOn = i \/ IsDesc(reads[q].waitOn, i))}}

\* the inspect calls whose pending read is rejected when operation i fails
FailedInspects(i) ==
  {-reads[r].owner : r \in {q \in DOMAIN reads :
                              /\ reads[q].st = "waiting"
                              /\ reads[q].owner < 0
                              /\ (reads[q].waitOn = i \/ IsDesc(reads[q].waitOn, i))}}

\* the inspect calls after the reads of the calls in S were rejected
InspectsAfterThrow(S) ==
  [q \in DOMAIN inspects |-> IF q \in S THEN [inspects[q] EXCEPT !.st = "threw"] ELSE inspects[q]]

\* the reads that are rejected when operation i fails
FailedReads(i) ==
  {q \in DOMAIN reads : /\ reads[q].st = "waiting"
                        /\ (reads[q].waitOn = i \/ IsDesc(reads[q].waitOn, i))}

\* the getEntryCount calls after the reads in R were rejected
CountsAfterThrow(R) ==
  [k \in DOMAIN counts |->
     IF counts[k].rd \in R THEN [counts[k] EXCEPT !.st = "threw"] ELSE counts[k]]

\* getEventCount goes on after read r returned text:
\* content.split("\n").filter((line) => line.trim().length > 0).length
CountsAfterRead(r, text) ==
  [k \in DOMAIN counts |->
     IF counts[k].rd = r THEN [counts[k] EXCEPT !.st = "ok", !.result = Len(Events(text))]
     ELSE counts[k]]

\* The I/O of operation i completes.  In the same turn of the event loop the
\* caller's finally block removes the _pendingOps entry if it is still this
\* operation, the reads awaiting it go on, and the operation chained on it
\* starts (on success) or is rejected together with all its successors (on
\* failure).
OpDone(i, ok) ==
  /\ ops[i].st = "running"
  /\ LET n == ops[i].name IN
     IF ok
       THEN /\ exists' = [exists EXCEPT ![n] = TRUE]
            /\ content' = [content EXCEPT ![n] = Effect(ops[i], @)]
            /\ ops' = [j \in DOMAIN ops |->
                         IF j = i THEN [ops[j] EXCEPT !.st = "ok"]
                         ELSE IF ops[j].prev = i /\ ops[j].st = "waiting"
                           THEN [ops[j] EXCEPT !.st = "running"]
                           ELSE ops[j]]
            /\ pendingOps' = [pendingOps EXCEPT ![n] = IF @ = i THEN 0 ELSE @]
            /\ reads' = [r \in DOMAIN reads |->
                           IF reads[r].st = "waiting" /\ reads[r].waitOn = i
                             THEN [reads[r] EXCEPT !.st = "reading"]
                             ELSE reads[r]]
            /\ UNCHANGED <<faults, replays, isReplaying, inspects, counts>>
       ELSE /\ faults < MaxFaults
            /\ faults' = faults + 1
            /\ replays' = ReplaysAfterThrow(FailedOwners(i))
            /\ inspects' = InspectsAfterThrow(FailedInspects(i))
            /\ counts' = CountsAfterThrow(FailedReads(i))
            /\ isReplaying' = GuardAfterThrow(FailedOwners(i))
            /\ ops' = [j \in DOMAIN ops |->
                         IF j = i THEN [ops[j] EXCEPT !.st = "err"]
                         ELSE IF IsDesc(j, i) /\ ops[j].st = "waiting"
                           THEN [ops[j] EXCEPT !.st = "err"]
                           ELSE ops[j]]
            /\ pendingOps' = [pendingOps EXCEPT ![n] =
                                IF @ # 0 /\ (@ = i \/ IsDesc(@, i)) THEN 0 ELSE @]
            /\ reads' = [r \in DOMAIN reads |->
                           IF /\ reads[r].st = "waiting"
                              /\ (reads[r].waitOn = i \/ IsDesc(reads[r].waitOn, i))
                             THEN [reads[r] EXCEPT !.st = "err"]
                             ELSE reads[r]]
            /\ UNCHANGED <<exists, content>>
  /\ UNCHANGED <<walVars, names, dirExists, content0, logs, registering, regs, notreg,
                 walFileName, retryConfig, entries, invalid>>

\* the record of a read call on n made by owner (0: the application, c > 0:
\* replay call c, c < 0: inspect call -c): it awaits the _pendingOps entry, if any, and then reads
NewRead(n, owner) ==
  [name |-> n, owner |-> owner, waitOn |-> ReadWaitOn(n), st |-> ReadState(ReadWaitOn(n)),
   result |-> <<>>, after |-> Len(ops), done |-> 0]

\* WALManager.read up to its await or its readFile (WalManager.ts:105-119)
CallRead(n) ==
  /\ UNCHANGED <<engVars, cliVars>>
  /\ IF n \notin logs
       THEN /\ notreg' = notreg \cup {n}
            /\ UNCHANGED <<walVars, names, dirExists, exists, content, content0, logs, registering,
                           pendingOps, ops, reads, regs, faults>>
       ELSE /\ Budget
            /\ reads' = Append(reads, NewRead(n, 0))
            /\ UNCHANGED <<walVars, names, dirExists, exists, content, content0, logs, registering,
                           pendingOps, ops, regs, notreg, faults>>

\* readFile of read r completes (WalManager.ts:119); a missing file is an error.
\* A read made by a replay call continues that call in the same turn
\* (DurabilityManager.replay: the window, the result, the first invocation).
ReadDone(r, ok) ==
  /\ reads[r].st = "reading"
  /\ LET n == reads[r].name
         c == reads[r].owner
     IN IF ok /\ exists[n]
          THEN /\ reads' = [reads EXCEPT ![r].st = "ok", ![r].result = content[n],
                                         ![r].done = Len(ops)]
               /\ UNCHANGED faults
               /\ IF c > 0
                    THEN /\ replays' = [replays EXCEPT ![c] = AfterRead(@, content[n])]
                         /\ isReplaying' = IF AfterRead(replays[c], content[n]).st = "done"
                                             THEN ReleaseOnReturn(isReplaying, replays[c].eng)
                                             ELSE isReplaying
                    ELSE UNCHANGED <<replays, isReplaying>>
               /\ IF c < 0
                    THEN inspects' = [inspects EXCEPT ![-c] = InspectAfterRead(@, content[n])]
                    ELSE UNCHANGED inspects
               /\ counts' = CountsAfterRead(r, content[n])
          ELSE /\ exists[n] => faults < MaxFaults
               /\ faults' = IF exists[n] THEN faults + 1 ELSE faults
               /\ reads' = [reads EXCEPT ![r].st = "err"]
               /\ IF c > 0
                    THEN /\ replays' = ReplaysAfterThrow({c})
                         /\ isReplaying' = GuardAfterThrow({c})
                    ELSE UNCHANGED <<replays, isReplaying>>
               /\ inspects' = InspectsAfterThrow(IF c < 0 THEN {-c} ELSE {})
               /\ counts' = CountsAfterThrow({r})
  /\ UNCHANGED <<walVars, names, dirExists, exists, content, content0, logs, registering, pendingOps,
                 ops, regs, notreg, walFileName, retryConfig, entries, invalid>>

\* ------------------------------------------------------------------------
\* DurabilityManager
\* ------------------------------------------------------------------------

\* DurabilityManager.replay up to its first await: the single-flight guard,
\* then walManager.read; w tells that the processor is the wrapper of
\* DurableWal.replay
StartReplay(e, count, w) ==
  /\ Len(replays) < MaxReplays
  /\ LET n == walFileName[e]
         c == Len(replays) + 1
         call == [eng |-> e, count |-> count, st |-> "rejected", end |-> "", rd |-> 0,
                  during |-> {k \in DOMAIN replays : Running(replays[k])},
                  window |-> <<>>, recs |-> <<>>, result |-> EmptyResult, log |-> <<>>,
                  wrapped |-> w, plog |-> <<>>, outcome |-> NoOutcome]
     IN IF GuardTaken(e)
          THEN /\ replays' = Append(Forget(replays), call)
               /\ UNCHANGED <<reads, notreg, isReplaying>>
          ELSE IF n \notin logs
            THEN /\ replays' = Append(Forget(replays), [call EXCEPT !.st = "threw"])
                 /\ notreg' = notreg \cup {n}
                 /\ isReplaying' = ReleaseOnThrow([isReplaying EXCEPT ![e] = TRUE], e)
                 /\ UNCHANGED reads
            ELSE /\ Budget
                 /\ reads' = Append(reads, NewRead(n, c))
                 /\ replays' = Append(Forget(replays), [call EXCEPT !.st = "reading",
                                                            !.rd = Len(reads) + 1])
                 /\ isReplaying' = [isReplaying EXCEPT ![e] = TRUE]
                 /\ UNCHANGED notreg
  /\ UNCHANGED <<walVars, names, dirExists, exists, content, content0, logs, registering, pendingOps,
                 ops, regs, faults, walFileName, retryConfig>>

\* DurabilityManager.replay called with a processor of the application
CallReplay(e, count) == StartReplay(e, count, FALSE) /\ UNCHANGED cliVars

\* processEventWithRetry returned true for record i of call: the record is
\* counted as processed and the observer is told so
ResolvedUnobserved(call, i, att) ==
  [call EXCEPT !.recs[i].st = "ok",
               !.result.processedCount = @ + 1,
               !.log = @ \o <<Ev("resolve", i, att)>>]
ResolvedUncounted(call, i, att) ==
  [call EXCEPT !.recs[i].st = "ok",
               !.log = @ \o <<Ev("resolve", i, att), Ev("observe", i, 1)>>]
Resolved(call, i, att) ==
  [call EXCEPT !.recs[i].st = "ok",
               !.result.processedCount = @ + 1,
               !.log = @ \o <<Ev("resolve", i, att), Ev("observe", i, 1)>>]

\* processEventWithRetry returned false for record i of call: the record is
\* counted as failed, the result is no success, the observer is told so
GaveUpStillSuccess(call, i, att) ==
  [call EXCEPT !.recs[i].st = "failed",
               !.result.failedCount = @ + 1,
               !.log = @ \o <<Ev("reject", i, att), Ev("observe", i, 0)>>]
GaveUp(call, i, att) ==
  [call EXCEPT !.recs[i].st = "failed",
               !.result.failedCount = @ + 1,
               !.result.success = FALSE,
               !.log = @ \o <<Ev("reject", i, att), Ev("observe", i, 0)>>]

\* The promise of processor(event) for record i of call c settles
\* (processEventWithRetry): fulfilled, the record is counted as processed;
\* rejected with attempts left, the backoff sleep starts; rejected on the last
\* attempt, the record is counted as failed.  Then replay goes on.
AttemptDone(c, i, ok, j) ==
  /\ UNCHANGED cliVars
  /\ replays[c].st = "processing"
  /\ i \in DOMAIN replays[c].recs
  /\ replays[c].recs[i].st = "invoking"
  /\ LET call == replays[c]
         att == call.recs[i].attempt
         cfg == retryConfig[call.eng]
     IN IF ok
          THEN LET c1 == Resolved(call, i, att)
               IN /\ replays' = [replays EXCEPT ![c] = Advance(c1, i)]
                  /\ isReplaying' = IF Advance(c1, i).st = "done"
                                      THEN ReleaseOnReturn(isReplaying, call.eng)
                                      ELSE isReplaying
          ELSE IF AttemptsRemain(cfg, att)
            THEN /\ replays' = [replays EXCEPT
                                  ![c].recs[i].st = "sleeping",
                                  ![c].recs[i].delay = CalculateBackoffDelay(cfg, att, j),
                                  ![c].log = @ \o <<Ev("reject", i, att), Ev("sleep", i, att)>>]
                 /\ UNCHANGED isReplaying
            ELSE LET c1 == GaveUp(call, i, att)
                 IN /\ replays' = [replays EXCEPT ![c] = Advance(c1, i)]
                    /\ isReplaying' = IF Advance(c1, i).st = "done"
                                        THEN ReleaseOnReturn(isReplaying, call.eng)
                                        ELSE isReplaying
  /\ UNCHANGED <<walVars, names, dirExists, exists, content, content0, logs, registering, pendingOps,
                 ops, reads, regs, notreg, faults, walFileName, retryConfig>>

\* the promise of a processor of the application, called by the engine
\* itself, settles
ProcDone(c, i, ok, j) ==
  /\ ~replays[c].wrapped
  /\ AttemptDone(c, i, ok, j)

\* The promise of the caller's processor, called by the wrapper of
\* DurableWal.replay for record i of call c, settles.  Rejected in the try
\* block, the catch block calls the processor again with the serialized line;
\* otherwise the promise of the wrapper settles the same way and the
\* engine's attempt ends.
WrapperProcDone(c, i, ok, j) ==
  /\ replays[c].wrapped
  /\ replays[c].st = "processing"
  /\ i \in DOMAIN replays[c].recs
  /\ replays[c].recs[i].st = "invoking"
  /\ IF ~ok /\ replays[c].plog[Len(replays[c].plog)].stage = "data"
       THEN /\ replays' = [replays EXCEPT ![c].plog =
                             Append(@, CatchInvocation(replays[c].window[i], i,
                                                       replays[c].recs[i].attempt))]
            /\ UNCHANGED <<walVars, names, dirExists, exists, content, content0, logs, registering,
                           pendingOps, ops, reads, regs, notreg, faults, walFileName,
                           retryConfig, isReplaying, cliVars>>
       ELSE AttemptDone(c, i, ok, j)

\* the backoff sleep of record i of call c ends: the next attempt is made
WakeUpClearsLog(c, i) ==
  /\ UNCHANGED cliVars
  /\ replays[c].st = "processing"
  /\ i \in DOMAIN replays[c].recs
  /\ replays[c].recs[i].st = "sleeping"
  /\ replays' = [replays EXCEPT
                   ![c].recs[i] = [st |-> "invoking", attempt |-> @.attempt + 1, delay |-> 0],
                   ![c].log = @ \o <<Ev("invoke", i, replays[c].recs[i].attempt + 1)>>,
                   ![c].plog = @ \o (IF replays[c].wrapped
                                       THEN <<FirstInvocation(replays[c].window[i], i,
                                                              replays[c].recs[i].attempt + 1)>>
                                       ELSE <<>>)]
  /\ content' = [content EXCEPT ![walFileName[replays[c].eng]] = <<>>]
  /\ UNCHANGED <<walVars, names, dirExists, exists, content0, logs, registering, pendingOps,
                 ops, reads, regs, notreg, faults, walFileName, retryConfig, isReplaying>>
WakeUp(c, i) ==
  /\ UNCHANGED cliVars
  /\ replays[c].st = "processing"
  /\ i \in DOMAIN replays[c].recs
  /\ replays[c].recs[i].st = "sleeping"
  /\ replays' = [replays EXCEPT
                   ![c].recs[i] = [st |-> "invoking", attempt |-> @.attempt + 1, delay |-> 0],
                   ![c].log = @ \o <<Ev("invoke", i, replays[c].recs[i].attempt + 1)>>,
                   ![c].plog = @ \o (IF replays[c].wrapped
                                       THEN <<FirstInvocation(replays[c].window[i], i,
                                                              replays[c].recs[i].attempt + 1)>>
                                       ELSE <<>>)]
  /\ UNCHANGED <<walVars, names, dirExists, exists, content, content0, logs, registering, pendingOps,
                 ops, reads, regs, notreg, faults, walFileName, retryConfig, isReplaying>>

Next ==
  \/ \E n \in names : CallRegister(n)
  \/ \E i \in DOMAIN regs, ok \in BOOLEAN : RegMkdirDone(i, ok)
  \/ \E i \in DOMAIN regs : RegAccessDone(i)
  \/ \E i \in DOMAIN regs, ok \in BOOLEAN : RegWriteDone(i, ok)
  \/ \E n \in names, d \in Data : CallAppend(n, d)
  \/ \E n \in names : CallTruncate(n)
  \/ \E i \in DOMAIN ops, ok \in BOOLEAN : OpDone(i, ok)
  \/ \E n \in names : CallRead(n)
  \/ \E r \in DOMAIN reads, ok \in BOOLEAN : ReadDone(r, ok)

Spec == Init /\ [][Next]_vars

\* the payload appended by a process that works with both names
TwoData == {<<"x">>}

\* A process that works with both names; "a" has a file left by an earlier
\* process, "b" has none.
InitTwo ==
  /\ names = Names
  /\ dirExists = TRUE
  /\ exists = [n \in Names |-> n = "a"]
  /\ content = [n \in Names |-> IF exists[n] THEN OldContent ELSE <<>>]
  /\ content0 = content
  /\ logs = {}
  /\ registering = {}
  /\ pendingOps = [n \in Names |-> 0]
  /\ ops = <<>>
  /\ reads = <<>>
  /\ regs = <<>>
  /\ notreg = {}
  /\ faults = 0
  /\ walFileName = [e \in Engines |-> "a"]
  /\ retryConfig = [e \in Engines |-> DEFAULT_RETRY_CONFIG]
  /\ isReplaying = [e \in Engines |-> FALSE]
  /\ replays = <<>>
  /\ entries = <<>>
  /\ inspects = <<>>
  /\ invalid = {}
  /\ counts = <<>>
  /\ builders = <<>>
  /\ wals = <<>>

NextTwo ==
  \/ \E n \in names : CallRegister(n)
  \/ \E i \in DOMAIN regs, ok \in BOOLEAN : RegMkdirDone(i, ok)
  \/ \E i \in DOMAIN regs : RegAccessDone(i)
  \/ \E i \in DOMAIN regs, ok \in BOOLEAN : RegWriteDone(i, ok)
  \/ \E n \in names, d \in TwoData : CallAppend(n, d)
  \/ \E n \in names : CallTruncate(n)
  \/ \E i \in DOMAIN ops, ok \in BOOLEAN : OpDone(i, ok)

SpecTwo == InitTwo /\ [][NextTwo]_vars

\* A process in which the log "a" is registered and holds some content, and
\* DurabilityManager instances bound to it replay it.
InitReplay ==
  /\ names = {"a"}
  /\ dirExists = TRUE
  /\ exists = [n \in Names |-> n = "a"]
  /\ \E t \in Contents : content = [n \in Names |-> IF n = "a" THEN t ELSE <<>>]
  /\ content0 = content
  /\ logs = {"a"}
  /\ registering = {}
  /\ pendingOps = [n \in Names |-> 0]
  /\ ops = <<>>
  /\ reads = <<>>
  /\ regs = <<[name |-> "a", pc |-> "ok"]>>
  /\ notreg = {}
  /\ faults = 0
  /\ walFileName = [e \in Engines |-> "a"]
  /\ \E cfg \in RetryConfigs :
       retryConfig = [e \in Engines |-> IF e = "e1" THEN cfg ELSE SmallRetryConfig]
  /\ isReplaying = [e \in Engines |-> FALSE]
  /\ replays = <<>>
  /\ entries = <<>>
  /\ inspects = <<>>
  /\ invalid = {}
  /\ counts = <<>>
  /\ builders = <<>>
  /\ wals = <<>>

NextReplay ==
  \/ \E e \in Engines, count \in Counts : CallReplay(e, count)
  \/ \E r \in DOMAIN reads, ok \in BOOLEAN : ReadDone(r, ok)
  \/ \E c \in DOMAIN replays, i \in 1 .. 3, ok \in BOOLEAN, j \in Jitters : ProcDone(c, i, ok, j)
  \/ \E c \in DOMAIN replays, i \in 1 .. 2 : WakeUp(c, i)

SpecReplay == InitReplay /\ [][NextReplay]_vars

\* ------------------------------------------------------------------------
\* DurableWal
\* ------------------------------------------------------------------------

\* DurableWal.append up to its await: the check of the content, the entry,
\* its serialization and DurabilityManager.append, which is WALManager.append
\* on the instance's file
ClientAppend(e, c, now) ==
  /\ ClientBudget
  /\ UNCHANGED <<inspects, counts>>
  /\ IF RejectsContent(c)
       THEN /\ invalid' = invalid \cup {[call |-> "append", content |-> c, count |-> 0]}
            /\ UNCHANGED <<walVars, names, dirExists, exists, content, content0, logs, registering,
                           pendingOps, ops, reads, regs, notreg, faults, engVars, entries>>
       ELSE LET n == walFileName[e]
                entry == [id |-> RandomUUID(Len(entries) + 1), timestamp |-> now, data |-> c]
            IN /\ Submit(n, "append", Stringify(entry), AppendPrev(n))
               /\ entries' = IF n \in logs THEN Append(entries, entry @@ [op |-> Len(ops) + 1])
                                           ELSE entries
               /\ UNCHANGED invalid

\* DurableWal.inspect up to its await: the check of the number, then
\* DurabilityManager.read, which is WALManager.read on the instance's file
ClientInspect(e, numberOfEvents) ==
  /\ ClientBudget
  /\ UNCHANGED <<walVars, names, dirExists, exists, content, content0, logs, registering, pendingOps,
                 ops, regs, faults, engVars, entries, counts>>
  /\ IF numberOfEvents < 0
       THEN /\ invalid' = invalid \cup {[call |-> "inspect", content |-> <<>>,
                                         count |-> numberOfEvents]}
            /\ UNCHANGED <<reads, notreg, inspects>>
       ELSE LET n == walFileName[e] IN
            IF n \notin logs
              THEN /\ notreg' = notreg \cup {n}
                   /\ UNCHANGED <<reads, inspects, invalid>>
              ELSE /\ Budget
                   /\ reads' = Append(reads, NewRead(n, -(Len(inspects) + 1)))
                   /\ inspects' = Append(inspects, [count |-> numberOfEvents,
                                                    rd |-> Len(reads) + 1,
                                                    st |-> "reading", result |-> <<>>])
                   /\ UNCHANGED <<notreg, invalid>>

\* DurableWal.getEntryCount up to its await: DurabilityManager.getEventCount,
\* which is WALManager.read on the instance's file
GetEntryCount(e) ==
  /\ ClientBudget
  /\ UNCHANGED <<walVars, names, dirExists, exists, content, content0, logs, registering, pendingOps,
                 ops, regs, faults, engVars, entries, inspects, invalid>>
  /\ LET n == walFileName[e] IN
     IF n \notin logs
       THEN /\ notreg' = notreg \cup {n}
            /\ UNCHANGED <<reads, counts>>
       ELSE /\ Budget
            /\ reads' = Append(reads, NewRead(n, 0))
            /\ counts' = Append(counts, [rd |-> Len(reads) + 1, st |-> "reading", result |-> 0])
            /\ UNCHANGED notreg

\* DurableWal.replay up to its await: the checks of the number and of the
\* processor, then DurabilityManager.replay with the wrapper as processor
ClientReplay(e, eventNum, hasProcessor) ==
  /\ ClientBudget
  /\ IF eventNum < 0 \/ ~hasProcessor
       THEN /\ invalid' = invalid \cup {[call |-> IF eventNum < 0 THEN "replay"
                                                   ELSE "replayNoProcessor",
                                         content |-> <<>>, count |-> eventNum]}
            /\ UNCHANGED <<walVars, names, dirExists, exists, content, content0, logs, registering,
                           pendingOps, ops, reads, regs, notreg, faults, engVars,
                           entries, inspects, counts>>
       ELSE /\ StartReplay(e, eventNum, TRUE)
            /\ UNCHANGED cliVars

\* the envelope lines of the logs that DurableWal instances replay
EnvelopeA == Stringify([id |-> <<"u", "1">>, timestamp |-> 7, data |-> <<"A">>])
EnvelopeB ==
  Stringify([id |-> <<"u", "2">>, timestamp |-> 12, data |-> <<" ", "B", NL, QUOTE, BSL, "n">>])

\* the content of the log when a DurableWal replays it: an envelope line and
\* a line written without the envelope, in both orders; a line that is a
\* JSON number and an envelope line; a cut envelope line and an envelope line
WrappedContents ==
  { EnvelopeA \o <<NL, "l", NL>>,
    <<"l", NL>> \o EnvelopeB \o <<NL>>,
    <<"5", NL>> \o EnvelopeA \o <<NL>>,
    SubSeq(EnvelopeA, 1, Len(EnvelopeA) - 2) \o <<NL>> \o EnvelopeB \o <<NL>> }

\* the DurabilityManager instance of the DurableWal that replays
WrappedEngines == {"e1"}

\* A process in which the log "a" is registered and holds envelope lines and
\* other lines, and a DurableWal instance replays it.
InitWrapped ==
  /\ names = {"a"}
  /\ dirExists = TRUE
  /\ exists = [n \in Names |-> n = "a"]
  /\ \E t \in WrappedContents : content = [n \in Names |-> IF n = "a" THEN t ELSE <<>>]
  /\ content0 = content
  /\ logs = {"a"}
  /\ registering = {}
  /\ pendingOps = [n \in Names |-> 0]
  /\ ops = <<>>
  /\ reads = <<>>
  /\ regs = <<[name |-> "a", pc |-> "ok"]>>
  /\ notreg = {}
  /\ faults = 0
  /\ walFileName = [e \in Engines |-> "a"]
  /\ retryConfig = [e \in Engines |-> IF e = "e1" THEN DEFAULT_RETRY_CONFIG
                                       ELSE SmallRetryConfig]
  /\ isReplaying = [e \in Engines |-> FALSE]
  /\ replays = <<>>
  /\ entries = <<>>
  /\ inspects = <<>>
  /\ invalid = {}
  /\ counts = <<>>
  /\ builders = <<>>
  /\ wals = <<>>

NextWrapped ==
  \/ \E e \in WrappedEngines, k \in InspectCounts, f \in BOOLEAN : ClientReplay(e, k, f)
  \/ \E r \in DOMAIN reads, ok \in BOOLEAN : ReadDone(r, ok)
  \/ \E c \in DOMAIN replays, i \in 1 .. 2, ok \in BOOLEAN, j \in Jitters :
       WrapperProcDone(c, i, ok, j)
  \/ \E c \in DOMAIN replays, i \in 1 .. 2 : WakeUp(c, i)

SpecWrapped == InitWrapped /\ [][NextWrapped]_vars

\* A process in which the log "a" is registered and DurableWal instances
\* append to it and inspect it, while the application may truncate it.
InitClient ==
  /\ names = {"a"}
  /\ dirExists = TRUE
  /\ exists = [n \in Names |-> n = "a"]
  /\ \E t \in ClientContents : content = [n \in Names |-> IF n = "a" THEN t ELSE <<>>]
  /\ content0 = content
  /\ logs = {"a"}
  /\ registering = {}
  /\ pendingOps = [n \in Names |-> 0]
  /\ ops = <<>>
  /\ reads = <<>>
  /\ regs = <<[name |-> "a", pc |-> "ok"]>>
  /\ notreg = {}
  /\ faults = 0
  /\ walFileName = [e \in Engines |-> "a"]
  /\ retryConfig = [e \in Engines |-> DEFAULT_RETRY_CONFIG]
  /\ isReplaying = [e \in Engines |-> FALSE]
  /\ replays = <<>>
  /\ entries = <<>>
  /\ inspects = <<>>
  /\ invalid = {}
  /\ counts = <<>>
  /\ builders = <<>>
  /\ wals = <<>>

NextClient ==
  \/ \E e \in Engines, c \in ClientPayloads, now \in Timestamps : ClientAppend(e, c, now)
  \/ \E e \in Engines, k \in InspectCounts : ClientInspect(e, k)
  \/ \E n \in names : CallTruncate(n)
  \/ \E i \in DOMAIN ops, ok \in BOOLEAN : OpDone(i, ok)
  \/ \E r \in DOMAIN reads, ok \in BOOLEAN : ReadDone(r, ok)

SpecClient == InitClient /\ [][NextClient]_vars

\* the contents appended to a fresh log
FreshPayloads == { <<"A">>, <<"B">>, <<"C">> }

\* the values of Date.now() while a fresh log is appended to
FreshTimes == {7}

\* A process in which a DurableWal was constructed for the name "a", which
\* has no file and is not registered with the WALManager.  The client
\* appends, inspects the last two entries and replays the last one; the
\* application may register the name itself.
InitFresh ==
  /\ names = {"a"}
  /\ dirExists \in BOOLEAN
  /\ exists = [n \in Names |-> FALSE]
  /\ content = [n \in Names |-> <<>>]
  /\ content0 = content
  /\ logs = {}
  /\ registering = {}
  /\ pendingOps = [n \in Names |-> 0]
  /\ ops = <<>>
  /\ reads = <<>>
  /\ regs = <<>>
  /\ notreg = {}
  /\ faults = 0
  /\ walFileName = [e \in Engines |-> "a"]
  /\ retryConfig = [e \in Engines |-> SmallRetryConfig]
  /\ isReplaying = [e \in Engines |-> FALSE]
  /\ replays = <<>>
  /\ entries = <<>>
  /\ inspects = <<>>
  /\ invalid = {}
  /\ counts = <<>>
  /\ builders = <<>>
  /\ wals = <<>>

NextFresh ==
  \/ \E e \in WrappedEngines, c \in FreshPayloads, now \in FreshTimes : ClientAppend(e, c, now)
  \/ \E e \in WrappedEngines : ClientInspect(e, 2)
  \/ \E e \in WrappedEngines : ClientReplay(e, 1, TRUE)
  \/ \E n \in names : CallRegister(n)
  \/ \E i \in DOMAIN regs, ok \in BOOLEAN : RegMkdirDone(i, ok)
  \/ \E i \in DOMAIN regs : RegAccessDone(i)
  \/ \E i \in DOMAIN regs, ok \in BOOLEAN : RegWriteDone(i, ok)
  \/ \E i \in DOMAIN ops, ok \in BOOLEAN : OpDone(i, ok)
  \/ \E r \in DOMAIN reads, ok \in BOOLEAN : ReadDone(r, ok)
  \/ \E c \in DOMAIN replays, i \in 1 .. 2, ok \in BOOLEAN, j \in Jitters :
       WrapperProcDone(c, i, ok, j)
  \/ \E c \in DOMAIN replays, i \in 1 .. 2 : WakeUp(c, i)

SpecFresh == InitFresh /\ [][NextFresh]_vars

\* the arguments of the calls of a DurableWal that is called in every way
CallPayloads == ClientPayloads
CallInspectCounts == {-1, 2}
CallReplayCounts == {-1, 1}

\* A DurableWal on the registered log "a" that is called in every way, with
\* valid and invalid arguments.
InitCalls ==
  /\ names = {"a"}
  /\ dirExists = TRUE
  /\ exists = [n \in Names |-> n = "a"]
  /\ content = [n \in Names |-> IF n = "a" THEN <<"l", NL>> ELSE <<>>]
  /\ content0 = content
  /\ logs = {"a"}
  /\ registering = {}
  /\ pendingOps = [n \in Names |-> 0]
  /\ ops = <<>>
  /\ reads = <<>>
  /\ regs = <<[name |-> "a", pc |-> "ok"]>>
  /\ notreg = {}
  /\ faults = 0
  /\ walFileName = [e \in Engines |-> "a"]
  /\ retryConfig = [e \in Engines |-> SmallRetryConfig]
  /\ isReplaying = [e \in Engines |-> FALSE]
  /\ replays = <<>>
  /\ entries = <<>>
  /\ inspects = <<>>
  /\ invalid = {}
  /\ counts = <<>>
  /\ builders = <<>>
  /\ wals = <<>>

NextCalls ==
  \/ \E e \in WrappedEngines, c \in CallPayloads, now \in FreshTimes : ClientAppend(e, c, now)
  \/ \E e \in WrappedEngines, k \in CallInspectCounts : ClientInspect(e, k)
  \/ \E e \in WrappedEngines, k \in CallReplayCounts, f \in BOOLEAN : ClientReplay(e, k, f)
  \/ \E i \in DOMAIN ops, ok \in BOOLEAN : OpDone(i, ok)
  \/ \E r \in DOMAIN reads, ok \in BOOLEAN : ReadDone(r, ok)
  \/ \E c \in DOMAIN replays, i \in 1 .. 2, ok \in BOOLEAN, j \in Jitters :
       WrapperProcDone(c, i, ok, j)
  \/ \E c \in DOMAIN replays, i \in 1 .. 2 : WakeUp(c, i)

SpecCalls == InitCalls /\ [][NextCalls]_vars

\* log contents with blank lines: nothing else, or records between them
BlankContents ==
  { <<" ", NL, NL, "\t", NL>>,
    <<NL, "l", NL, "\t", " ", NL, "m", NL, NL>> }

\* A DurableWal on the registered log "a", which holds blank lines, that
\* counts, inspects and replays.
InitBlank ==
  /\ names = {"a"}
  /\ dirExists = TRUE
  /\ exists = [n \in Names |-> n = "a"]
  /\ \E t \in BlankContents : content = [n \in Names |-> IF n = "a" THEN t ELSE <<>>]
  /\ content0 = content
  /\ logs = {"a"}
  /\ registering = {}
  /\ pendingOps = [n \in Names |-> 0]
  /\ ops = <<>>
  /\ reads = <<>>
  /\ regs = <<[name |-> "a", pc |-> "ok"]>>
  /\ notreg = {}
  /\ faults = 0
  /\ walFileName = [e \in Engines |-> "a"]
  /\ retryConfig = [e \in Engines |-> SmallRetryConfig]
  /\ isReplaying = [e \in Engines |-> FALSE]
  /\ replays = <<>>
  /\ entries = <<>>
  /\ inspects = <<>>
  /\ invalid = {}
  /\ counts = <<>>
  /\ builders = <<>>
  /\ wals = <<>>

NextBlank ==
  \/ \E e \in WrappedEngines : GetEntryCount(e)
  \/ \E e \in WrappedEngines, k \in InspectCounts : ClientInspect(e, k)
  \/ \E e \in WrappedEngines, k \in InspectCounts : ClientReplay(e, k, TRUE)
  \/ \E r \in DOMAIN reads, ok \in BOOLEAN : ReadDone(r, ok)
  \/ \E c \in DOMAIN replays, i \in 1 .. 2, ok \in BOOLEAN, j \in Jitters :
       WrapperProcDone(c, i, ok, j)
  \/ \E c \in DOMAIN replays, i \in 1 .. 2 : WakeUp(c, i)

SpecBlank == InitBlank /\ [][NextBlank]_vars

\* retry configurations whose delays reach the cap, stay at one value, or
\* stay below the cap
BackoffConfigs ==
  { [maxRetries |-> 3, initialDelayMs |-> 10, maxDelayMs |-> 15, backoffMultiplier |-> 2],
    [maxRetries |-> 3, initialDelayMs |-> 3, maxDelayMs |-> 20, backoffMultiplier |-> 3],
    [maxRetries |-> 2, initialDelayMs |-> 7, maxDelayMs |-> 7, backoffMultiplier |-> 1],
    DEFAULT_RETRY_CONFIG }

\* A process in which the log "a" is registered and holds two lines, and a
\* DurabilityManager with one of the retry configurations replays it
InitBackoff ==
  /\ names = {"a"}
  /\ dirExists = TRUE
  /\ exists = [n \in Names |-> n = "a"]
  /\ content = [n \in Names |-> IF n = "a" THEN <<"l", NL, "m", NL>> ELSE <<>>]
  /\ content0 = content
  /\ logs = {"a"}
  /\ registering = {}
  /\ pendingOps = [n \in Names |-> 0]
  /\ ops = <<>>
  /\ reads = <<>>
  /\ regs = <<[name |-> "a", pc |-> "ok"]>>
  /\ notreg = {}
  /\ faults = 0
  /\ walFileName = [e \in Engines |-> "a"]
  /\ \E cfg \in BackoffConfigs : retryConfig = [e \in Engines |-> cfg]
  /\ isReplaying = [e \in Engines |-> FALSE]
  /\ replays = <<>>
  /\ entries = <<>>
  /\ inspects = <<>>
  /\ invalid = {}
  /\ counts = <<>>
  /\ builders = <<>>
  /\ wals = <<>>

NextBackoff ==
  \/ \E count \in {1, 2} : CallReplay("e1", count)
  \/ \E r \in DOMAIN reads : ReadDone(r, TRUE)
  \/ \E c \in DOMAIN replays, i \in 1 .. 2, ok \in BOOLEAN, j \in Jitters : ProcDone(c, i, ok, j)
  \/ \E c \in DOMAIN replays, i \in 1 .. 2 : WakeUp(c, i)

SpecBackoff == InitBackoff /\ [][NextBackoff]_vars

\* the count arguments of the replays whose termination is explored
LiveCounts == {0, 2}

\* A process in which the log "a" is registered and holds two lines, and
\* two DurabilityManager instances replay it
InitLive ==
  /\ names = {"a"}
  /\ dirExists = TRUE
  /\ exists = [n \in Names |-> n = "a"]
  /\ content = [n \in Names |-> IF n = "a" THEN <<"l", NL, "m", NL>> ELSE <<>>]
  /\ content0 = content
  /\ logs = {"a"}
  /\ registering = {}
  /\ pendingOps = [n \in Names |-> 0]
  /\ ops = <<>>
  /\ reads = <<>>
  /\ regs = <<[name |-> "a", pc |-> "ok"]>>
  /\ notreg = {}
  /\ faults = 0
  /\ walFileName = [e \in Engines |-> "a"]
  /\ retryConfig = [e \in Engines |-> SmallRetryConfig]
  /\ isReplaying = [e \in Engines |-> FALSE]
  /\ replays = <<>>
  /\ entries = <<>>
  /\ inspects = <<>>
  /\ invalid = {}
  /\ counts = <<>>
  /\ builders = <<>>
  /\ wals = <<>>

NextLive ==
  \/ \E e \in Engines, count \in LiveCounts : CallReplay(e, count)
  \/ \E r \in DOMAIN reads, ok \in BOOLEAN : ReadDone(r, ok)
  \/ \E c \in DOMAIN replays, i \in 1 .. 2, ok \in BOOLEAN : ProcDone(c, i, ok, 0)
  \/ \E c \in DOMAIN replays, i \in 1 .. 2 : WakeUp(c, i)

\* what a replay call awaits terminates: the read of the log, every
\* invocation of the processor and every backoff sleep of each call
FairLive ==
  /\ \A r \in 1 .. MaxCalls :
       WF_vars(r \in DOMAIN reads /\ \E ok \in BOOLEAN : ReadDone(r, ok))
  /\ \A c \in 1 .. MaxReplays :
       /\ WF_vars(c \in DOMAIN replays /\ \E i \in 1 .. 2, ok \in BOOLEAN : ProcDone(c, i, ok, 0))
       /\ WF_vars(c \in DOMAIN replays /\ \E i \in 1 .. 2 : WakeUp(c, i))

SpecLive == InitLive /\ [][NextLive]_vars /\ FairLive

\* the count arguments of the replays made while the log is written
WindowCounts == {1, 5}

\* A process in which the log "a", registered and holding two lines, is
\* replayed while appends and truncates are made on it
NextWindow ==
  \/ \E count \in WindowCounts : CallReplay("e1", count)
  \/ \E r \in DOMAIN reads : ReadDone(r, TRUE)
  \/ \E c \in DOMAIN replays, i \in 1 .. 2, ok \in BOOLEAN : ProcDone(c, i, ok, 0)
  \/ \E c \in DOMAIN replays, i \in 1 .. 2 : WakeUp(c, i)
  \/ \E d \in TwoData : CallAppend("a", d)
  \/ CallTruncate("a")
  \/ \E i \in DOMAIN ops : OpDone(i, TRUE)

SpecWindow == InitLive /\ [][NextWindow]_vars

\* ------------------------------------------------------------------------
\* WAL and WALBuilder
\* ------------------------------------------------------------------------

\* the capability the WAL constructor asks for (WAL.ts:1)
builderKey == "builderKey"

\* the symbols code outside WAL.ts can pass to the constructor: a well-known
\* symbol and a fresh symbol with the description of builderKey
ForeignKeys == {"Symbol.iterator", "Symbol(WALBuilder)"}

\* the names WALBuilder.file and the constructor are called with
GivenNames == {"", "a", "b"}

\* WALBuilder._fileName is <<>> when it is undefined and <<name>> otherwise;
\* the test of WALBuilder.build that looks at the name only when it is undefined
MissingUndefinedOnly(f) == f = <<>>

\* !this._fileName in WALBuilder.build: undefined and "" are falsy
Missing(f) == f = <<>> \/ f[1] = ""

\* the WAL constructor: it throws unless the key is builderKey, and keeps the
\* name in _fileName, which the getter fileName returns
NewWAL(via, key, given) ==
  IF key # builderKey
    THEN [via |-> via, key |-> key, given |-> given, st |-> "threw", fileName |-> ""]
    ELSE [via |-> via, key |-> key, given |-> given, st |-> "ok", fileName |-> given[1]]

\* another builder or handle may be asked for
WalBudget == Len(builders) + Len(wals) < MaxCalls

\* everything but the builders, the handles and the names
allButWal ==
  <<dirExists, exists, content, content0, logs, registering, pendingOps, ops, reads, regs,
    notreg, faults, engVars, cliVars>>

\* WAL.builder(): a WALBuilder whose _fileName is undefined
Builder ==
  /\ WalBudget
  /\ builders' = Append(builders, <<>>)
  /\ UNCHANGED <<wals, names, allButWal>>

\* WALBuilder.file
File(b, fileName) ==
  /\ b \in DOMAIN builders
  /\ builders' = [builders EXCEPT ![b] = <<fileName>>]
  /\ UNCHANGED <<wals, names, allButWal>>

\* WALBuilder.build: it throws when the name is missing, and constructs the
\* WAL with builderKey otherwise; the application then works with the name
Build(b) ==
  /\ b \in DOMAIN builders
  /\ WalBudget
  /\ IF Missing(builders[b])
       THEN /\ wals' = Append(wals, [via |-> "build", key |-> builderKey,
                                     given |-> builders[b], st |-> "threw", fileName |-> ""])
            /\ UNCHANGED names
       ELSE LET wal == NewWAL("build", builderKey, builders[b])
            IN /\ wals' = Append(wals, wal)
               /\ names' = names \cup {wal.fileName}
  /\ UNCHANGED <<builders, allButWal>>

\* new WAL(key, fileName) from outside WAL.ts
Construct(key, fileName) ==
  /\ WalBudget
  /\ LET wal == NewWAL("new", key, <<fileName>>)
     IN /\ wals' = Append(wals, wal)
        /\ names' = IF wal.st = "ok" THEN names \cup {wal.fileName} ELSE names
  /\ UNCHANGED <<builders, allButWal>>

\* A process that has made no builder and no handle yet
InitWal ==
  /\ names = {}
  /\ dirExists = FALSE
  /\ exists = [n \in Names |-> FALSE]
  /\ content = [n \in Names |-> <<>>]
  /\ content0 = content
  /\ logs = {}
  /\ registering = {}
  /\ pendingOps = [n \in Names |-> 0]
  /\ ops = <<>>
  /\ reads = <<>>
  /\ regs = <<>>
  /\ notreg = {}
  /\ faults = 0
  /\ walFileName = [e \in Engines |-> "a"]
  /\ retryConfig = [e \in Engines |-> DEFAULT_RETRY_CONFIG]
  /\ isReplaying = [e \in Engines |-> FALSE]
  /\ replays = <<>>
  /\ entries = <<>>
  /\ inspects = <<>>
  /\ invalid = {}
  /\ counts = <<>>
  /\ builders = <<>>
  /\ wals = <<>>

NextWal ==
  \/ Builder
  \/ \E b \in 1..MaxCalls, fileName \in GivenNames : File(b, fileName)
  \/ \E b \in 1..MaxCalls : Build(b)
  \/ \E key \in ForeignKeys, fileName \in GivenNames : Construct(key, fileName)

SpecWal == InitWal /\ [][NextWal]_vars

\* ------------------------------------------------------------------------
\* Properties of WALManager
\* ------------------------------------------------------------------------

\* the content that results from applying to c, in call order, the operations
\* on n numbered i..k that completed without error
RECURSIVE FoldOk(_, _, _, _)
FoldOk(n, c, i, k) ==
  IF i > k THEN c
  ELSE FoldOk(n, IF ops[i].name = n /\ ops[i].st = "ok"
                   THEN (IF ops[i].kind = "append" THEN c \o ops[i].data \o <<NL>> ELSE <<>>)
                   ELSE c,
              i + 1, k)

\* the operations submitted on n
OpsOn(n) == {i \in DOMAIN ops : ops[i].name = n}

\* every operation on n was submitted after the registration of n had ended
AfterRegistration(n) == \A i \in OpsOn(n) : ~ops[i].early

\* C1: once all the appends and truncates issued on a registered name have
\* completed without I/O error, the file content is the result of applying
\* them one after another in call order.
Thm_C1 ==
  \A n \in Names :
    (AfterRegistration(n) /\ \A i \in OpsOn(n) : ops[i].st = "ok")
      => content[n] = FoldOk(n, content0[n], 1, Len(ops))

\* two appends of different payloads, the second issued while the first was
\* pending, have both completed
Wit_C1 ==
  \E i, j \in DOMAIN ops :
    /\ ops[j].prev = i
    /\ ops[i].kind = "append" /\ ops[j].kind = "append"
    /\ ops[i].data # ops[j].data
    /\ ops[i].st = "ok" /\ ops[j].st = "ok"
    /\ AfterRegistration(ops[i].name)

\* C2: once a truncate has completed, the file holds no line of an append
\* submitted before it: the content is what the operations submitted after the
\* truncate, and completed, make of the empty file.
Thm_C2 ==
  \A t \in DOMAIN ops :
    (ops[t].kind = "truncate" /\ ops[t].st = "ok" /\ AfterRegistration(ops[t].name))
      => content[ops[t].name] = FoldOk(ops[t].name, <<>>, t + 1, Len(ops))

\* append, truncate, append issued without awaiting, all completed
Wit_C2 ==
  \E i, t, j \in DOMAIN ops :
    /\ ops[t].prev = i /\ ops[j].prev = t
    /\ ops[i].kind = "append" /\ ops[t].kind = "truncate" /\ ops[j].kind = "append"
    /\ ops[i].st = "ok" /\ ops[t].st = "ok" /\ ops[j].st = "ok"
    /\ ops[i].data # ops[j].data
    /\ AfterRegistration(ops[t].name)
    /\ content[ops[t].name] = ops[j].data \o <<NL>>

\* C3: the content a read returns reflects every append and truncate submitted
\* on the name before the read was issued: it is the result of applying, in
\* call order, all the operations up to some operation that is not earlier than
\* the last one submitted before the read.
Thm_C3 ==
  \A r \in DOMAIN reads :
    (reads[r].st = "ok" /\ AfterRegistration(reads[r].name))
      => \E k \in reads[r].after .. Len(ops) :
           /\ \A i \in OpsOn(reads[r].name) : i <= k => Settled(ops[i].st)
           /\ reads[r].result = FoldOk(reads[r].name, content0[reads[r].name], 1, k)

\* a read issued while an append was still pending has returned that append's line
Wit_C3 ==
  \E r \in DOMAIN reads :
    /\ reads[r].st = "ok"
    /\ reads[r].waitOn # 0
    /\ ops[reads[r].waitOn].kind = "append"
    /\ AfterRegistration(reads[r].name)
    /\ reads[r].result # content0[reads[r].name]

\* the payloads of the operations 1..k on n, each followed by one newline
RECURSIVE PayloadLines(_, _)
PayloadLines(n, k) ==
  IF k = 0 THEN <<>>
  ELSE IF ops[k].name = n THEN PayloadLines(n, k - 1) \o ops[k].data \o <<"\n">>
  ELSE PayloadLines(n, k - 1)

\* n had no file, was registered, and then only appends were made on it, each
\* awaited before the next call, up to read r, which completed before any
\* further operation
SequentialAppends(n, r) ==
  /\ content0[n] = <<>>
  /\ \E g \in DOMAIN regs : regs[g].name = n /\ regs[g].pc = "ok"
  /\ AfterRegistration(n)
  /\ reads[r].waitOn = 0
  /\ reads[r].done = reads[r].after
  /\ \A i \in OpsOn(n) :
       i <= reads[r].after => ops[i].kind = "append" /\ ops[i].prev = 0 /\ ops[i].st = "ok"

\* C4: after registering a name without prior file and awaiting N sequential
\* appends, read returns exactly d_1 .. d_N, each followed by one newline.
Thm_C4 ==
  \A r \in DOMAIN reads :
    (reads[r].st = "ok" /\ SequentialAppends(reads[r].name, r))
      => reads[r].result = PayloadLines(reads[r].name, reads[r].after)

\* two awaited appends were read back
Wit_C4 ==
  \E r \in DOMAIN reads :
    /\ reads[r].st = "ok"
    /\ SequentialAppends(reads[r].name, r)
    /\ Cardinality({i \in OpsOn(reads[r].name) : i <= reads[r].after}) >= 2

\* ------------------------------------------------------------------------
\* Properties of DurabilityManager.replay
\* ------------------------------------------------------------------------

\* the replay calls on the same instance that were running when call c was made
BusyAtCall(c) == {k \in replays[c].during : replays[k].eng = replays[c].eng}

\* the number of entries ev of record i in the log of call c
Count(c, ev, i) ==
  Cardinality({p \in DOMAIN replays[c].log :
                 replays[c].log[p].ev = ev /\ replays[c].log[p].rec = i})

\* C6: a replay call made while another replay call on the same instance is
\* running is rejected at once, without a read of the log and without an
\* invocation of the processor; no call is rejected for another reason, so a
\* call on another instance is not rejected.
Thm_C6 ==
  \A c \in DOMAIN replays :
    /\ BusyAtCall(c) # {} =>
         /\ replays[c].st = "rejected"
         /\ replays[c].rd = 0
         /\ replays[c].log = <<>>
         /\ \A r \in DOMAIN reads : reads[r].owner # c
    /\ replays[c].st = "rejected" => BusyAtCall(c) # {}

\* a call was rejected while the first call on its instance was processing
Wit_C6 ==
  \E c \in DOMAIN replays :
    /\ replays[c].st = "rejected"
    /\ \E k \in BusyAtCall(c) : replays[k].log # <<>>

\* C7: isReplayInProgress is true exactly while an accepted replay call of the
\* instance is running, whatever way earlier calls ended.
Thm_C7 ==
  \A e \in Engines :
    isReplaying[e] <=> \E c \in DOMAIN replays : replays[c].eng = e /\ Running(replays[c])

\* the read of a replay call failed and a later call on the instance was accepted
Wit_C7 ==
  \E c, k \in DOMAIN replays :
    /\ c < k
    /\ replays[c].eng = replays[k].eng
    /\ replays[c].end = "threw"
    /\ replays[k].st = "processing"

\* a line made of whitespace only
Blank(l) == \A p \in DOMAIN l : l[p] \in {" ", "\t", "\r"}

\* the last min(count, available) elements of lines, none for count <= 0
LastMin(lines, count) ==
  IF count <= 0 THEN <<>>
  ELSE SubSeq(lines, Len(lines) - (IF count < Len(lines) THEN count ELSE Len(lines)) + 1,
              Len(lines))

\* the records call c has passed to the processor, in the order of their
\* first attempts
RECURSIVE DeliveredFrom(_, _)
DeliveredFrom(c, p) ==
  IF p > Len(replays[c].log) THEN <<>>
  ELSE (IF replays[c].log[p].ev = "invoke" /\ replays[c].log[p].n = 0
          THEN <<replays[c].window[replays[c].log[p].rec]>> ELSE <<>>)
       \o DeliveredFrom(c, p + 1)

Delivered(c) == DeliveredFrom(c, 1)

Thm_C9 ==
  \A c \in DOMAIN replays :
    /\ Cardinality({i \in DOMAIN replays[c].recs : replays[c].recs[i].st = "invoking"}) <= 1
    /\ \A p, q \in DOMAIN replays[c].log :
         (p < q /\ replays[c].log[p].ev = "invoke" /\ replays[c].log[q].ev = "invoke")
           => replays[c].log[p].rec <= replays[c].log[q].rec
    /\ \A q \in DOMAIN replays[c].log :
         (replays[c].log[q].ev = "invoke" /\ replays[c].log[q].n = 0 /\ replays[c].log[q].rec > 1)
           => \E p \in 1 .. q - 1 :
                /\ replays[c].log[p].ev = "observe"
                /\ replays[c].log[p].rec = replays[c].log[q].rec - 1

\* the second record of a window is being attempted after a retry of the first
Wit_C9 ==
  \E c \in DOMAIN replays :
    /\ Len(replays[c].recs) >= 2
    /\ replays[c].recs[2].st = "invoking"
    /\ Count(c, "invoke", 1) >= 2

\* C10: a record whose processor fails on every attempt is attempted exactly
\* maxRetries + 1 times and is then counted in failedCount, not in
\* processedCount.
Thm_C10 ==
  \A c \in DOMAIN replays :
    LET max == retryConfig[replays[c].eng].maxRetries IN
    /\ \A i \in DOMAIN replays[c].recs :
         /\ Count(c, "invoke", i) <= max + 1
         /\ replays[c].recs[i].st = "failed" <=>
              (Count(c, "reject", i) = max + 1 /\ Count(c, "resolve", i) = 0)
         /\ replays[c].recs[i].st = "failed" => Count(c, "invoke", i) = max + 1
         /\ (Count(c, "resolve", i) = 0 /\ replays[c].recs[i].st \in {"invoking", "sleeping"})
              => Count(c, "reject", i) <= max
    /\ replays[c].result.failedCount =
         Cardinality({i \in DOMAIN replays[c].recs : replays[c].recs[i].st = "failed"})
    /\ replays[c].result.processedCount =
         Cardinality({i \in DOMAIN replays[c].recs : replays[c].recs[i].st = "ok"})

\* a record was given up under the default configuration, after 4 attempts
Wit_C10 ==
  \E c \in DOMAIN replays :
    /\ retryConfig[replays[c].eng] = DEFAULT_RETRY_CONFIG
    /\ replays[c].st = "done"
    /\ \E i \in DOMAIN replays[c].recs :
         replays[c].recs[i].st = "failed" /\ Count(c, "invoke", i) = 4
    /\ replays[c].result.failedCount >= 1

\* the number of invocations of record i in the first p entries of the log of c
InvokedBefore(c, i, p) ==
  Cardinality({q \in 1 .. p :
                 replays[c].log[q].ev = "invoke" /\ replays[c].log[q].rec = i})

\* C11: a record given up does not end the replay: the next record is started
\* in the same step, each record's attempts are numbered from 0 whatever
\* happened to the records before it, a call that returned has attempted
\* every record of its window, and a call that has invoked the processor does
\* not end by throwing.
Thm_C11 ==
  \A c \in DOMAIN replays :
    /\ \A i \in DOMAIN replays[c].recs :
         /\ (replays[c].recs[i].st \in {"ok", "failed"} /\ i < Len(replays[c].recs))
              => replays[c].recs[i + 1].st # "idle"
         /\ replays[c].st = "done" =>
              /\ replays[c].recs[i].st \in {"ok", "failed"}
              /\ Count(c, "invoke", i) >= 1
    /\ \A p \in DOMAIN replays[c].log :
         replays[c].log[p].ev = "invoke"
           => replays[c].log[p].n = InvokedBefore(c, replays[c].log[p].rec, p - 1)
    /\ replays[c].st = "threw" => replays[c].log = <<>>
    /\ (replays[c].st = "processing" /\ replays[c].result.failedCount > 0)
         => \E i \in DOMAIN replays[c].recs : replays[c].recs[i].st \in {"invoking", "sleeping"}

\* a replay returned a result after its first record was given up and its
\* second record succeeded on a retry
Wit_C11 ==
  \E c \in DOMAIN replays :
    /\ replays[c].st = "done"
    /\ Len(replays[c].recs) = 2
    /\ replays[c].recs[1].st = "failed"
    /\ replays[c].recs[2].st = "ok"
    /\ Count(c, "invoke", 2) = 2
    /\ replays[c].result.failedCount = 1
    /\ replays[c].result.processedCount = 1
    /\ ~replays[c].result.success

\* the positions of the entries ev of record i in the log of call c
Positions(c, ev, i) ==
  {p \in DOMAIN replays[c].log : replays[c].log[p].ev = ev /\ replays[c].log[p].rec = i}

\* C12: a record whose processor succeeds after k failures is counted as
\* processed after exactly k + 1 invocations, the observer is told of the
\* success, and no attempt is made on the record after the successful one.
Thm_C12 ==
  \A c \in DOMAIN replays :
    /\ \A i \in DOMAIN replays[c].recs :
         /\ replays[c].recs[i].st = "ok" <=> Count(c, "resolve", i) = 1
         /\ Count(c, "resolve", i) <= 1
         /\ replays[c].recs[i].st = "ok" =>
              /\ Count(c, "invoke", i) = Count(c, "reject", i) + 1
              /\ Count(c, "reject", i) <= retryConfig[replays[c].eng].maxRetries
              /\ Count(c, "sleep", i) = Count(c, "reject", i)
              /\ \A p \in Positions(c, "resolve", i) :
                   /\ \A q \in Positions(c, "invoke", i) : q < p
                   /\ replays[c].log[p + 1] = Ev("observe", i, 1)
    /\ replays[c].st \in {"processing", "done"} =>
         replays[c].result.processedCount =
           Cardinality({i \in DOMAIN replays[c].recs : Count(c, "resolve", i) = 1})

\* under the default configuration a record succeeded on its third attempt
\* and another at once, and the replay returned
Wit_C12 ==
  \E c \in DOMAIN replays :
    /\ retryConfig[replays[c].eng] = DEFAULT_RETRY_CONFIG
    /\ replays[c].st = "done"
    /\ \E i, j \in DOMAIN replays[c].recs :
         /\ replays[c].recs[i].st = "ok"
         /\ Count(c, "reject", i) = 2
         /\ Count(c, "invoke", i) = 3
         /\ replays[c].recs[j].st = "ok"
         /\ Count(c, "invoke", j) = 1
    /\ replays[c].result.processedCount = 2
    /\ replays[c].result.success

\* C13: the ReplayResult a replay call returns has processedCount +
\* failedCount equal to the number of records selected for the call and
\* success exactly when failedCount is 0; while the call runs the two counts
\* add up to the number of records with a final outcome.
Thm_C13 ==
  \A c \in DOMAIN replays :
    /\ replays[c].st = "done" =>
         /\ replays[c].result.processedCount + replays[c].result.failedCount
              = Len(replays[c].window)
         /\ Len(replays[c].window)
              = Len(LastMin(SelectSeq(Split(reads[replays[c].rd].result), LAMBDA l : ~Blank(l)),
                            replays[c].count))
    /\ replays[c].st \in {"processing", "done"} =>
         /\ replays[c].result.success <=> replays[c].result.failedCount = 0
         /\ replays[c].result.processedCount + replays[c].result.failedCount
              = Cardinality({i \in DOMAIN replays[c].recs :
                               replays[c].recs[i].st \in {"ok", "failed"}})

\* a replay of two records returned with the first processed and the second
\* failed
Wit_C13 ==
  \E c \in DOMAIN replays :
    /\ replays[c].st = "done"
    /\ Len(replays[c].window) = 2
    /\ replays[c].result.processedCount = 1
    /\ replays[c].result.failedCount = 1
    /\ ~replays[c].result.success
    /\ replays[c].recs[1].st = "ok"

\* ------------------------------------------------------------------------
\* Properties of DurableWal
\* ------------------------------------------------------------------------

\* the content DurableWal.append was called with for operation i
RECURSIVE ContentOfFrom(_, _)
ContentOfFrom(i, a) ==
  IF a = 0 THEN <<>>
  ELSE IF entries[a].op = i THEN entries[a].data
  ELSE ContentOfFrom(i, a - 1)

ContentOf(i) == ContentOfFrom(i, Len(entries))

\* operation i is a completed DurableWal.append on n
ClientAppended(n, i) ==
  /\ ops[i].name = n
  /\ ops[i].kind = "append"
  /\ ops[i].st = "ok"
  /\ \E a \in DOMAIN entries : entries[a].op = i

\* inspect call q asked for k >= 1 entries when the last k operations on its
\* log were completed DurableWal.append calls, and nothing was submitted
\* while it read
RoundTrip(q) ==
  LET call == inspects[q]
      r == reads[call.rd]
      k == call.count
  IN /\ call.st = "ok"
     /\ k >= 1
     /\ k <= r.after
     /\ r.done = r.after
     /\ AfterRegistration(r.name)
     /\ \A i \in (r.after - k + 1) .. r.after : ClientAppended(r.name, i)

\* C5: after append(c1), ..., append(ck) with non-blank contents and no
\* truncate, inspect(k) returns exactly <<c1, ..., ck>>, in call order
Thm_C5 ==
  \A q \in DOMAIN inspects :
    RoundTrip(q) =>
      LET k == inspects[q].count
          first == reads[inspects[q].rd].after - k
      IN inspects[q].result = [i \in 1 .. k |-> JStr(ContentOf(first + i))]

\* an inspect(2) returned after two appends, one of a content with a newline,
\* a quote and a backslash in it, to a log that held an older line
Wit_C5 ==
  \E q \in DOMAIN inspects :
    /\ RoundTrip(q)
    /\ inspects[q].count = 2
    /\ content0["a"] # <<>>
    /\ Len(inspects[q].result) = 2
    /\ inspects[q].result[1] = JStr(<<" ", "B", NL, QUOTE, BSL, "n">>)
    /\ inspects[q].result[2] = JStr(<<"A">>)

\* the replay calls made by DurableWal.replay that are still known in full
WrappedCalls == {c \in DOMAIN replays : replays[c].wrapped /\ replays[c].st # "past"}

\* C14: DurableWal.replay resolves exactly when the result of the engine has
\* success = TRUE; otherwise it rejects once, after every record of the
\* window had its final outcome, with the failedCount of the result and the
\* total processedCount + failedCount.  Before the engine returns there is no
\* outcome.
Thm_C14 ==
  \A c \in WrappedCalls :
    /\ replays[c].st = "done" =>
         /\ replays[c].outcome.st = "resolved" <=> replays[c].result.success
         /\ replays[c].outcome.st = "failed" <=> ~replays[c].result.success
         /\ replays[c].outcome.st = "failed" =>
              /\ replays[c].outcome.failedCount = replays[c].result.failedCount
              /\ replays[c].outcome.failedCount =
                   Cardinality({i \in DOMAIN replays[c].recs : replays[c].recs[i].st = "failed"})
              /\ replays[c].outcome.total = Len(replays[c].window)
              /\ \A i \in DOMAIN replays[c].recs :
                   replays[c].recs[i].st \in {"ok", "failed"} /\ Count(c, "invoke", i) >= 1
    /\ replays[c].st # "done" => replays[c].outcome = NoOutcome

\* a DurableWal.replay of two records was rejected with 1 failed out of 2,
\* the failed record being the first
Wit_C14 ==
  \E c \in WrappedCalls :
    /\ replays[c].st = "done"
    /\ replays[c].outcome = [st |-> "failed", failedCount |-> 1, total |-> 2]
    /\ replays[c].recs[1].st = "failed"
    /\ replays[c].recs[2].st = "ok"

\* a line stored as an envelope: the serialization of an object with the
\* members id, timestamp and data, in this order
StoredAsEnvelope(line) ==
  LET r == JsonParse(line) IN
  /\ r.ok
  /\ r.v.t = "obj"
  /\ Len(r.v.kv) = 3
  /\ r.v.kv[1][1] = KeyId
  /\ r.v.kv[2][1] = KeyTimestamp
  /\ r.v.kv[3][1] = KeyData

\* a line that structured decoding fails on
Undecodable(line) == ~JsonParse(line).ok

\* the payload of a line: the data of an envelope, else the line itself
Payload(line) == IF StoredAsEnvelope(line) THEN JsonParse(line).v.kv[3][2] ELSE JStr(line)

\* C15: for every selected line that is an envelope or cannot be decoded,
\* inspect returns, and replay passes to the caller's processor, the data of
\* the envelope and the undecodable line itself, line by line in a file that
\* mixes both kinds.
Cex_C15 ==
  /\ \A q \in DOMAIN inspects :
       inspects[q].st = "ok" =>
         LET lines == LastN(Events(reads[inspects[q].rd].result), inspects[q].count)
         IN /\ Len(inspects[q].result) = Len(lines)
            /\ \A i \in DOMAIN lines :
                 StoredAsEnvelope(lines[i]) \/ Undecodable(lines[i]) =>
                   inspects[q].result[i] = Payload(lines[i])
  /\ \A c \in WrappedCalls :
       \A k \in DOMAIN replays[c].plog :
         LET line == replays[c].window[replays[c].plog[k].rec]
         IN StoredAsEnvelope(line) \/ Undecodable(line) =>
              replays[c].plog[k].arg = Payload(line)

\* the invocations of the caller's processor in attempt n on record i of call c
InvocationsIn(c, i, n) ==
  {k \in DOMAIN replays[c].plog : replays[c].plog[k].rec = i /\ replays[c].plog[k].n = n}

\* C16: for a line stored as an envelope, each attempt of the engine invokes
\* the caller's processor exactly once, with the data of the envelope and
\* never with the serialized line.
Cex_C16 ==
  \A c \in WrappedCalls :
    \A p \in DOMAIN replays[c].log :
      LET e == replays[c].log[p]
      IN e.ev = "invoke" /\ StoredAsEnvelope(replays[c].window[e.rec]) =>
           /\ Cardinality(InvocationsIn(c, e.rec, e.n)) = 1
           /\ \A k \in InvocationsIn(c, e.rec, e.n) :
                /\ replays[c].plog[k].stage = "data"
                /\ replays[c].plog[k].arg = Payload(replays[c].window[e.rec])

\* C17: on a fresh log, as long as nothing but the calls of the DurableWal
\* has been done (no registration of the name by anyone), append, inspect and
\* replay succeed: none of them is rejected because the name is not
\* registered.
Cex_C17 == regs = <<>> => walFileName["e1"] \notin notreg

\* a call of append, truncate or read on n
ManagerCall(n) ==
  \/ \E d \in Data : CallAppend(n, d)
  \/ CallTruncate(n)
  \/ CallRead(n)

\* everything but the record of the names rejected as not registered
allButNotreg ==
  <<names, dirExists, exists, content, content0, logs, registering, pendingOps, ops, reads,
    regs, faults, engVars, cliVars>>

\* C18: append, truncate and read on a name that is not registered are
\* rejected with NotRegistered and change nothing else: no file is created or
\* modified, no operation is chained, no read is started and the registration
\* state stays as it is.  Operations are chained and reads started only on
\* registered names.
Thm_C18 ==
  [][ /\ \A n \in Names \ logs :
           ManagerCall(n) => n \in notreg' /\ UNCHANGED allButNotreg
      /\ notreg' # notreg =>
           /\ \E n \in Names \ logs : notreg' = notreg \cup {n}
           /\ UNCHANGED allButNotreg
      /\ Len(ops') > Len(ops) => ops'[Len(ops')].name \in logs
      /\ Len(reads') > Len(reads) => reads'[Len(reads')].name \in logs ]_vars

\* a call on "a" was rejected as not registered while its file, left by an
\* earlier process, exists: the file is as it was and nothing was started
Wit_C18 ==
  /\ "a" \in notreg
  /\ "a" \notin logs
  /\ exists["a"]
  /\ content["a"] = content0["a"]
  /\ content["a"] # <<>>
  /\ ops = <<>>
  /\ reads = <<>>
  /\ regs = <<>>
  /\ registering = {}

\* everything but the history of the register calls
allButRegs ==
  <<names, dirExists, exists, content, content0, logs, registering, pendingOps, ops, reads,
    notreg, faults, engVars, cliVars>>

\* an operation on n completes without error in this step
OpCompletes(n) ==
  \E i \in DOMAIN ops : ops[i].name = n /\ ops[i].st # "ok" /\ ops'[i].st = "ok"

\* C19: a register call for a name that is already registered returns at
\* once: it starts no I/O, then or later, and changes nothing, the file
\* content included.  A file that existed with content before its name was
\* registered is never emptied or replaced by a registration: its content
\* changes only when an append or truncate completes.
Thm_C19 ==
  [][ /\ \A n \in logs \ registering :
           CallRegister(n) =>
             /\ regs' = Append(regs, [name |-> n, pc |-> "noop"])
             /\ UNCHANGED allButRegs
      /\ \A i \in DOMAIN regs : regs[i].pc = "noop" => regs'[i] = regs[i]
      /\ \A i \in DOMAIN regs :
           regs[i].pc = "access" /\ exists[regs[i].name] /\ regs'[i] # regs[i] =>
             regs'[i].pc = "ok" /\ UNCHANGED <<exists, content>>
      /\ \A n \in Names :
           content0[n] # <<>> /\ content'[n] # content[n] => OpCompletes(n) ]_vars

\* "a", whose file held content before the process started, was registered
\* and then registered again, and the file still holds that content
Wit_C19 ==
  /\ content0["a"] # <<>>
  /\ content["a"] = content0["a"]
  /\ \E i, j \in DOMAIN regs :
       /\ i < j
       /\ regs[i] = [name |-> "a", pc |-> "ok"]
       /\ regs[j] = [name |-> "a", pc |-> "noop"]

\* the register calls for n that are between their first await and their end
InProgress(n) ==
  {i \in DOMAIN regs : regs[i].name = n /\ regs[i].pc \in {"mkdir", "access", "write"}}

\* C20: a register call for a name whose registration is in progress is
\* rejected at once with nothing else changed, so at most one registration of
\* a name is in progress and the file is not created twice; the name is marked
\* exactly while its registration is in progress, the mark is removed when the
\* registration ends, by success or by failure, and a register call for a
\* name that is not marked is not rejected.
Thm_C20 ==
  [][ /\ \A n \in registering :
           CallRegister(n) =>
             /\ regs' = Append(regs, [name |-> n, pc |-> "rejected"])
             /\ UNCHANGED allButRegs
      /\ \A n \in Names \ registering :
           CallRegister(n) => regs'[Len(regs')].pc # "rejected"
      /\ \A i \in DOMAIN regs : regs[i].pc = "rejected" => regs'[i] = regs[i]
      /\ \A n \in Names :
           /\ Cardinality(InProgress(n)') <= 1
           /\ n \in registering' <=> InProgress(n)' # {}
      /\ \A i \in DOMAIN regs :
           i \in InProgress(regs[i].name) /\ regs'[i].pc \in {"ok", "err"} =>
             regs[i].name \notin registering' ]_vars

\* a register call for "a" was rejected while an earlier one was in
\* progress; the earlier one failed, and a later call was accepted and
\* succeeded
Wit_C20 ==
  /\ registering = {}
  /\ \E i, j, k \in DOMAIN regs :
       /\ i < j /\ j < k
       /\ regs[i] = [name |-> "a", pc |-> "err"]
       /\ regs[j] = [name |-> "a", pc |-> "rejected"]
       /\ regs[k] = [name |-> "a", pc |-> "ok"]

\* everything the manager and the disk hold about name n
NameState(n) ==
  <<exists[n], content[n], n \in logs, n \in registering, pendingOps[n], n \in notreg,
    [i \in {j \in DOMAIN ops : ops[j].name = n} |-> ops[i]],
    [i \in {j \in DOMAIN regs : regs[j].name = n} |-> regs[i]],
    [i \in {j \in DOMAIN reads : reads[j].name = n} |-> reads[i]]>>

\* the appends and truncates on n took effect one after another in call order
InCallOrder(n) ==
  (AfterRegistration(n) /\ \A i \in OpsOn(n) : ops[i].st = "ok")
    => content[n] = FoldOk(n, content0[n], 1, Len(ops))

\* C21: operations on different names are independent.  Every step (a call,
\* the completion or the failure of an I/O) changes what is held about one
\* name only; an operation is chained only on an operation of its own name,
\* and one submitted when its name has no pending operation starts at once;
\* a register call for a name that is neither registered nor being
\* registered is accepted, whatever is in progress on other names; and the
\* operations completed on a name took effect in call order.
Thm_C21 ==
  [][ /\ \A n, m \in Names :
           n # m /\ NameState(n)' # NameState(n) => NameState(m)' = NameState(m)
      /\ \A j \in DOMAIN ops' :
           ops'[j].prev # 0 => ops'[ops'[j].prev].name = ops'[j].name
      /\ \A n \in logs :
           (CallTruncate(n) \/ \E d \in TwoData : CallAppend(n, d)) /\ pendingOps[n] = 0
             => ops'[Len(ops')].st = "running"
      /\ \A n \in Names \ (logs \cup registering) :
           CallRegister(n) => regs'[Len(regs')].pc = "mkdir" /\ n \in registering'
      /\ \A n \in Names : InCallOrder(n)' ]_vars

\* both names were registered by calls that succeeded; an append on "a"
\* failed while an append on "b", submitted later and while the one on "a" was
\* running, completed and is the content of the file of "b"
Wit_C21 ==
  /\ regs = <<[name |-> "a", pc |-> "ok"], [name |-> "b", pc |-> "ok"]>>
  /\ Len(ops) = 2
  /\ ops[1].name = "a" /\ ops[1].st = "err"
  /\ ops[2].name = "b" /\ ops[2].st = "ok" /\ ops[2].prev = 0
  /\ content["b"] = <<"x", NL>>
  /\ content["a"] = content0["a"]

\* everything but the record of the calls rejected for their argument
allButInvalid ==
  <<names, dirExists, exists, content, content0, logs, registering, pendingOps, ops, reads,
    regs, notreg, faults, engVars, entries, inspects, counts>>

\* a content made of whitespace only, the empty content included
BlankContent(c) == \A p \in DOMAIN c : c[p] \in {" ", "\t", "\r", NL}

\* C22: append with an empty or all-whitespace content, inspect with a
\* negative count and replay with a negative count or without a processor are
\* rejected at once with nothing else changed: no operation is submitted, no
\* read is started, no replay call is made and the guard is not taken.  What
\* reaches the engine and the manager comes from calls with valid arguments.
Thm_C22 ==
  [][ /\ \A e \in WrappedEngines, c \in CallPayloads, now \in FreshTimes :
           BlankContent(c) /\ ClientAppend(e, c, now) =>
             /\ [call |-> "append", content |-> c, count |-> 0] \in invalid'
             /\ UNCHANGED allButInvalid
      /\ \A e \in WrappedEngines, k \in CallInspectCounts :
           k < 0 /\ ClientInspect(e, k) =>
             /\ [call |-> "inspect", content |-> <<>>, count |-> k] \in invalid'
             /\ UNCHANGED allButInvalid
      /\ \A e \in WrappedEngines, k \in CallReplayCounts, f \in BOOLEAN :
           (k < 0 \/ ~f) /\ ClientReplay(e, k, f) =>
             /\ \E r \in invalid' : r.call \in {"replay", "replayNoProcessor"} /\ r.count = k
             /\ UNCHANGED allButInvalid
      /\ invalid' # invalid => UNCHANGED allButInvalid
      /\ \A a \in DOMAIN entries' : ~BlankContent(entries'[a].data)
      /\ \A q \in DOMAIN inspects' : inspects'[q].count >= 0
      /\ \A c \in DOMAIN replays' : replays'[c].count >= 0 ]_vars

\* an append of whitespace, an inspect of -1 and a replay of -1 were rejected
\* and nothing else has happened
Wit_C22 ==
  /\ [call |-> "append", content |-> <<" ", NL>>, count |-> 0] \in invalid
  /\ [call |-> "inspect", content |-> <<>>, count |-> -1] \in invalid
  /\ [call |-> "replay", content |-> <<>>, count |-> -1] \in invalid
  /\ ops = <<>> /\ reads = <<>> /\ replays = <<>> /\ entries = <<>> /\ inspects = <<>>
  /\ content = content0
  /\ \A e \in Engines : ~isReplaying[e]

\* the entry that DurableWal.append built for operation i
EntryOf(i) == entries[CHOOSE a \in DOMAIN entries : entries[a].op = i]

\* C23: when the write of a DurableWal.append(content) completes, the log has
\* grown by exactly one line, without a newline in it, which is an envelope
\* whose data is content and whose id is the id that append returns; the ids
\* of different appends are pairwise distinct.
Thm_C23 ==
  [][ /\ \A i \in DOMAIN ops :
           (/\ ops[i].st = "running"
            /\ ops'[i].st = "ok"
            /\ \E a \in DOMAIN entries : entries[a].op = i) =>
             LET n == ops[i].name
                 line == ops[i].data
             IN /\ \A p \in DOMAIN line : line[p] # NL
                /\ content'[n] = content[n] \o line \o <<NL>>
                /\ Events(content'[n]) = Append(Events(content[n]), line)
                /\ StoredAsEnvelope(line)
                /\ Payload(line) = JStr(EntryOf(i).data)
                /\ JsonParse(line).v.kv[1][2] = JStr(EntryOf(i).id)
      /\ \A a, b \in DOMAIN entries' : a # b => entries'[a].id # entries'[b].id ]_vars

\* two appends have completed on a log that held a line: one of a content
\* with a newline, a quote and a backslash, one of "A"; the log has three lines
Wit_C23 ==
  /\ \E a, b \in DOMAIN entries :
       /\ entries[a].data = <<" ", "B", NL, QUOTE, BSL, "n">>
       /\ entries[b].data = <<"A">>
       /\ ops[entries[a].op].st = "ok"
       /\ ops[entries[b].op].st = "ok"
  /\ Len(Events(content["a"])) = 3

\* the non-blank lines that inspect call q read, and the ones it should select
InspectedLines(q) == SelectSeq(Split(reads[inspects[q].rd].result), LAMBDA l : ~Blank(l))
InspectWanted(q) == LastMin(InspectedLines(q), inspects[q].count)

\* C24: inspect(count) returns the payloads of the last min(count, available)
\* non-blank lines of the log, oldest first: none for count = 0, all of them
\* for a count above their number.
Cex_C24 ==
  \A q \in DOMAIN inspects :
    inspects[q].st = "ok" =>
      inspects[q].result = [i \in DOMAIN InspectWanted(q) |-> Payload(InspectWanted(q)[i])]

\* What holds of inspect(count): as many results as min(count, available),
\* and the payload of every selected line that is an envelope or cannot be
\* decoded, in the order of the lines.
InspectSelection ==
  \A q \in DOMAIN inspects :
    inspects[q].st = "ok" =>
      /\ Len(inspects[q].result) = Len(InspectWanted(q))
      /\ \A i \in DOMAIN InspectWanted(q) :
           StoredAsEnvelope(InspectWanted(q)[i]) \/ Undecodable(InspectWanted(q)[i]) =>
             inspects[q].result[i] = Payload(InspectWanted(q)[i])

\* the non-blank lines of a text
NonBlankLines(text) == SelectSeq(Split(text), LAMBDA l : ~Blank(l))

\* C25: blank and whitespace-only lines are never records.  getEntryCount is
\* the number of non-blank lines, inspect returns one payload per selected
\* non-blank line and replay's window is the last non-blank lines, whatever
\* blank lines lie between them; on a log with blank lines only getEntryCount
\* is 0, inspect is empty and replay returns success with 0 processed without
\* invoking the processor.
Thm_C25 ==
  /\ \A k \in DOMAIN counts :
       counts[k].st = "ok" =>
         counts[k].result = Len(NonBlankLines(reads[counts[k].rd].result))
  /\ \A q \in DOMAIN inspects :
       inspects[q].st = "ok" =>
         LET want == LastMin(NonBlankLines(reads[inspects[q].rd].result), inspects[q].count)
         IN inspects[q].result = [i \in DOMAIN want |-> JStr(want[i])]
  /\ \A c \in WrappedCalls :
       replays[c].st \in {"processing", "done"} =>
         LET lines == NonBlankLines(reads[replays[c].rd].result)
         IN /\ replays[c].window = LastMin(lines, replays[c].count)
            /\ lines = <<>> =>
                 /\ replays[c].st = "done"
                 /\ replays[c].outcome.st = "resolved"
                 /\ replays[c].result = EmptyResult
                 /\ replays[c].plog = <<>>

\* on a log of blank lines only, getEntryCount returned 0, inspect(2)
\* returned nothing and replay(2) resolved without a record
Wit_C25 ==
  /\ \A p \in DOMAIN content["a"] : content["a"][p] \in {" ", "\t", NL}
  /\ \E k \in DOMAIN counts : counts[k].st = "ok" /\ counts[k].result = 0
  /\ \E q \in DOMAIN inspects :
       inspects[q].st = "ok" /\ inspects[q].count = 2 /\ inspects[q].result = <<>>
  /\ \E c \in WrappedCalls :
       replays[c].st = "done" /\ replays[c].count = 2 /\ replays[c].window = <<>>

\* the positions in the log of call c at which the observer is told of record i
Observed(c, i) ==
  {p \in DOMAIN replays[c].log :
     replays[c].log[p].ev = "observe" /\ replays[c].log[p].rec = i}

\* C26: onEventProcessed is invoked exactly once per record of the window,
\* when the final outcome of the record is known: right after the fulfilled
\* attempt, with true, or right after the rejected last attempt, attempt
\* maxRetries, with false; after every invocation of the processor on the
\* record and on the records before it, and before every invocation on the
\* records after it.
Thm_C26 ==
  \A c \in DOMAIN replays :
    replays[c].st \in {"processing", "done"} =>
      LET log == replays[c].log
          cfg == retryConfig[replays[c].eng]
      IN /\ \A i \in DOMAIN replays[c].recs :
              /\ Cardinality(Observed(c, i)) =
                   (IF replays[c].recs[i].st \in {"ok", "failed"} THEN 1 ELSE 0)
              /\ replays[c].st = "done" => Cardinality(Observed(c, i)) = 1
         /\ \A p \in DOMAIN log :
              log[p].ev = "observe" =>
                /\ log[p].rec \in DOMAIN replays[c].recs
                /\ log[p].n = (IF replays[c].recs[log[p].rec].st = "ok" THEN 1 ELSE 0)
                /\ p > 1
                /\ log[p - 1].rec = log[p].rec
                /\ log[p].n = 1 => log[p - 1].ev = "resolve"
                /\ log[p].n = 0 =>
                     log[p - 1].ev = "reject" /\ log[p - 1].n = cfg.maxRetries
                /\ \A q \in DOMAIN log :
                     /\ log[q].ev = "invoke" /\ log[q].rec <= log[p].rec => q < p
                     /\ log[q].ev = "invoke" /\ log[q].rec > log[p].rec => q > p
                     /\ log[q].ev = "observe" /\ log[q].rec < log[p].rec => q < p

\* a replay of two records has returned: the first failed on both its
\* attempts and the observer was told false once, the second was processed
\* and the observer was told true
Wit_C26 ==
  \E c \in DOMAIN replays :
    /\ replays[c].st = "done"
    /\ Len(replays[c].window) = 2
    /\ replays[c].recs[1].st = "failed"
    /\ replays[c].recs[2].st = "ok"
    /\ Count(c, "reject", 1) = 2
    /\ \E p, q \in DOMAIN replays[c].log :
         /\ p < q
         /\ replays[c].log[p] = Ev("observe", 1, 0)
         /\ replays[c].log[q] = Ev("observe", 2, 1)

\* C27: getEntryCount, inspect and replay leave the log as it is, whatever
\* their outcome: the file and its content are those the process started
\* with, a record that failed for good in a replay is still a line of the log,
\* and every inspect, made before or after the replay, returns the payloads of
\* the last lines of that same content.
Thm_C27 ==
  /\ content = content0
  /\ exists = [n \in Names |-> n = "a"]
  /\ \A c \in WrappedCalls :
       \A i \in DOMAIN replays[c].recs :
         replays[c].recs[i].st = "failed" =>
           \E p \in DOMAIN NonBlankLines(content["a"]) :
             NonBlankLines(content["a"])[p] = replays[c].window[i]
  /\ \A q \in DOMAIN inspects :
       inspects[q].st = "ok" =>
         LET want == LastMin(NonBlankLines(content["a"]), inspects[q].count)
         IN inspects[q].result = [i \in DOMAIN want |-> JStr(want[i])]

\* a replay(2) was rejected because its first record failed on both
\* attempts; an inspect(2) called after it returned that record and the next,
\* and a getEntryCount returned 2
Wit_C27 ==
  \E c \in WrappedCalls, q \in DOMAIN inspects, k \in DOMAIN counts :
    /\ replays[c].st = "done"
    /\ replays[c].outcome = [st |-> "failed", failedCount |-> 1, total |-> 2]
    /\ replays[c].recs[1].st = "failed"
    /\ inspects[q].rd > replays[c].rd
    /\ inspects[q].st = "ok"
    /\ inspects[q].result = <<JStr(replays[c].window[1]), JStr(replays[c].window[2])>>
    /\ counts[k].st = "ok"
    /\ counts[k].result = 2

\* C28: an I/O error of the manager ends the call of the client that awaits
\* it with that error.  inspect is rejected exactly when its read is, without
\* a result; replay is rejected exactly when its read is, and then at once:
\* no window, no result, no outcome of its own and no invocation of the
\* processor; the append whose write failed has not changed the file.
Thm_C28 ==
  /\ \A q \in DOMAIN inspects :
       /\ inspects[q].st = "threw" <=> reads[inspects[q].rd].st = "err"
       /\ inspects[q].st = "threw" => inspects[q].result = <<>>
  /\ \A c \in WrappedCalls :
       replays[c].rd # 0 =>
         /\ replays[c].st = "threw" <=> reads[replays[c].rd].st = "err"
         /\ replays[c].st = "threw" =>
              /\ replays[c].window = <<>>
              /\ replays[c].result = EmptyResult
              /\ replays[c].outcome = NoOutcome
              /\ replays[c].log = <<>>
              /\ replays[c].plog = <<>>
  /\ \A a \in DOMAIN entries :
       ops[entries[a].op].st = "err" =>
         \A p \in DOMAIN NonBlankLines(content["a"]) :
           NonBlankLines(content["a"])[p] # ops[entries[a].op].data

\* the write of an append failed while an inspect and a replay awaited it:
\* all three calls were rejected
Wit_C28 ==
  /\ \E a \in DOMAIN entries : ops[entries[a].op].st = "err"
  /\ \E q \in DOMAIN inspects : inspects[q].st = "threw"
  /\ \E c \in WrappedCalls : replays[c].st = "threw" /\ replays[c].count = 1

\* C29: every log handle that exists was produced by WALBuilder.build from a
\* non-empty name, and its fileName is exactly the name the builder held:
\* build throws when the name is undefined or empty, the constructor throws
\* for every key that is not the builder's, and no handle bears the empty name.
Thm_C29 ==
  /\ \A i \in DOMAIN wals :
       LET w == wals[i] IN
       /\ w.st = "ok" => /\ w.via = "build"
                         /\ w.given # <<>>
                         /\ w.given[1] # ""
                         /\ w.fileName = w.given[1]
       /\ (w.via = "build" /\ (w.given = <<>> \/ w.given[1] = "")) => w.st = "threw"
       /\ w.via = "new" => w.st = "threw"
  /\ "" \notin names

\* a builder produced the handle of "a", a build with the empty name threw and
\* a direct construction threw
Wit_C29 ==
  /\ \E i \in DOMAIN wals : wals[i].st = "ok" /\ wals[i].fileName = "a"
  /\ \E i \in DOMAIN wals : wals[i].via = "build" /\ wals[i].given = <<"">>
                            /\ wals[i].st = "threw"
  /\ \E i \in DOMAIN wals : wals[i].via = "new" /\ wals[i].st = "threw"
  /\ "a" \in names

\* the appends and truncates on n whose I/O is executing
Writing(n) == {i \in DOMAIN ops : ops[i].name = n /\ ops[i].st = "running"}

\* the last append or truncate submitted on n, 0 if there is none
LastOp(n) ==
  IF \E i \in DOMAIN ops : ops[i].name = n
    THEN CHOOSE i \in DOMAIN ops :
           ops[i].name = n /\ \A k \in DOMAIN ops : ops[k].name = n => k <= i
    ELSE 0

\* C30: at most one append or truncate is executing its I/O on a log file; an
\* operation chained on another one is chained on an operation of the same
\* name and has started (or finished) its I/O only if that one completed; and
\* the chain entry of a name is its last operation for as long as that
\* operation is pending: the clean-up of an earlier one did not remove it.
Thm_C30 ==
  /\ \A n \in Names : Cardinality(Writing(n)) <= 1
  /\ \A j \in DOMAIN ops :
       ops[j].prev # 0 =>
         /\ ops[j].prev < j
         /\ ops[ops[j].prev].name = ops[j].name
         /\ ops[j].st \in {"running", "ok"} => ops[ops[j].prev].st = "ok"
  /\ \A n \in Names :
       LET j == LastOp(n) IN
       /\ (j # 0 /\ ~Settled(ops[j].st)) => pendingOps[n] = j
       /\ pendingOps[n] # 0 => (pendingOps[n] = j /\ ~Settled(ops[j].st))

\* three operations were chained on "a": the first completed, and its
\* clean-up left the entry of the third; the second is writing and the third,
\* a truncate, waits for it
Wit_C30 ==
  /\ Len(ops) >= 3
  /\ \A i \in 1..3 : ops[i].name = "a"
  /\ ops[2].prev = 1 /\ ops[3].prev = 2
  /\ ops[1].st = "ok" /\ ops[2].st = "running" /\ ops[3].st = "waiting"
  /\ ops[3].kind = "truncate"
  /\ pendingOps["a"] = 3

\* C31: a backoff sleep follows a failed attempt only when another attempt
\* remains.  A record that succeeded after k failures slept k times, a record
\* that exhausted its retries slept maxRetries times and not after its last
\* attempt, and every sleep in the log comes right after a failed attempt
\* that was not the last one, never after a success.
Thm_C31 ==
  \A c \in DOMAIN replays :
    LET max == retryConfig[replays[c].eng].maxRetries
        log == replays[c].log
    IN /\ \A i \in DOMAIN replays[c].recs :
            LET st == replays[c].recs[i].st IN
            /\ st = "ok" => Count(c, "sleep", i) = Count(c, "reject", i)
            /\ st = "failed" => /\ Count(c, "sleep", i) = max
                                /\ Count(c, "reject", i) = max + 1
            /\ st \in {"sleeping", "invoking"} =>
                 /\ Count(c, "sleep", i) = Count(c, "reject", i)
                 /\ Count(c, "sleep", i) <= max
            /\ st = "idle" => Count(c, "sleep", i) = 0
       /\ \A p \in DOMAIN log :
            log[p].ev = "sleep" =>
              /\ p > 1
              /\ log[p - 1].ev = "reject"
              /\ log[p - 1].rec = log[p].rec
              /\ log[p - 1].n = log[p].n
              /\ log[p].n < max
              /\ \A q \in 1 .. p : ~(log[q].ev = "resolve" /\ log[q].rec = log[p].rec)

\* in one call the first record exhausted its retries after one sleep and the
\* second succeeded after one failure and one sleep
Wit_C31 ==
  \E c \in DOMAIN replays :
    /\ replays[c].st = "done"
    /\ Len(replays[c].recs) = 2
    /\ replays[c].recs[1].st = "failed" /\ Count(c, "sleep", 1) = 1
    /\ replays[c].recs[2].st = "ok" /\ Count(c, "reject", 2) = 1
    /\ Count(c, "sleep", 2) = 1

\* min(maxDelayMs, initialDelayMs * backoffMultiplier^a)
CappedAt(cfg, a) ==
  IF cfg.initialDelayMs * cfg.backoffMultiplier ^ a <= cfg.maxDelayMs
    THEN cfg.initialDelayMs * cfg.backoffMultiplier ^ a
    ELSE cfg.maxDelayMs

\* C32: the sleep that follows the a-th failure of a record lasts
\* floor(min(maxDelayMs, initialDelayMs * backoffMultiplier^a) * (1 + jitter))
\* for a jitter between -0.25 and 0.25.  Without jitter the delays of a
\* configuration start at initialDelayMs, do not decrease with a and stay
\* within maxDelayMs; with jitter a delay is not negative and is at most
\* floor(1.25 * maxDelayMs).
Thm_C32 ==
  /\ \A e \in Engines :
       LET cfg == retryConfig[e] IN
       /\ CalculateBackoffDelay(cfg, 0, 0) = cfg.initialDelayMs
       /\ \A a \in 0 .. cfg.maxRetries - 1 :
            /\ CalculateBackoffDelay(cfg, a, 0) = CappedAt(cfg, a)
            /\ CalculateBackoffDelay(cfg, a, 0) <= CalculateBackoffDelay(cfg, a + 1, 0)
            /\ CalculateBackoffDelay(cfg, a, 0) <= cfg.maxDelayMs
  /\ \A c \in DOMAIN replays : \A i \in DOMAIN replays[c].recs :
       LET cfg == retryConfig[replays[c].eng]
           rec == replays[c].recs[i]
       IN rec.st = "sleeping" =>
            /\ \E j \in -100 .. 100 :
                 rec.delay = (CappedAt(cfg, rec.attempt) * (400 + j)) \div 400
            /\ rec.delay >= 0
            /\ rec.delay <= (5 * cfg.maxDelayMs) \div 4

\* after its second failure a record sleeps for a delay cut down to
\* maxDelayMs and raised by the jitter above it
Wit_C32 ==
  \E c \in DOMAIN replays : \E i \in DOMAIN replays[c].recs :
    LET cfg == retryConfig[replays[c].eng]
        rec == replays[c].recs[i]
    IN /\ rec.st = "sleeping"
       /\ rec.attempt = 1
       /\ cfg.initialDelayMs * cfg.backoffMultiplier ^ rec.attempt > cfg.maxDelayMs
       /\ rec.delay > cfg.maxDelayMs

\* the invocations of the processor made so far by replay call c
Invocations(c) == {p \in DOMAIN replays[c].log : replays[c].log[p].ev = "invoke"}

\* replay call c has ended, by a result or by an error, and the guard of its
\* instance is released
Completed(c) ==
  /\ c \in DOMAIN replays
  /\ ~Running(replays[c])
  /\ ~isReplaying[replays[c].eng]

\* C33: an accepted replay call makes at most (window size) * (maxRetries + 1)
\* invocations of the processor, and, when its read, its invocations and its
\* sleeps terminate, it ends with a result or an error and with the guard of
\* its instance released.
Thm_C33 ==
  /\ [](\A c \in DOMAIN replays :
          Cardinality(Invocations(c)) <=
            Len(replays[c].window) * (retryConfig[replays[c].eng].maxRetries + 1))
  /\ \A c \in 1 .. MaxReplays :
       (c \in DOMAIN replays /\ Running(replays[c])) ~> Completed(c)

\* a call with a window of two records made every invocation its retry
\* configuration allows and returned
Wit_C33 ==
  \E c \in DOMAIN replays :
    /\ replays[c].st = "done"
    /\ Len(replays[c].window) = 2
    /\ Cardinality(Invocations(c)) = 2 * (retryConfig[replays[c].eng].maxRetries + 1)
    /\ ~isReplaying[replays[c].eng]

\* the appends and truncates that reported an error to their caller
FailedOps == {i \in DOMAIN ops : ops[i].st = "err"}

\* C34: an I/O failure affects only the call whose write failed: every
\* operation that reports an error accounts for an I/O failure of its own, so
\* no more operations fail than I/O failures occurred, and no operation fails
\* while it waits for the one it was chained on.
Cex_C34 ==
  /\ Cardinality(FailedOps) <= faults
  /\ \A j \in FailedOps : ops[j].prev # 0 => ops[ops[j].prev].st = "ok"

\* no truncate was submitted on n
NeverTruncated(n) == \A i \in OpsOn(n) : ops[i].kind = "append"

\* C35: register does not destroy log content: as long as no truncate is
\* submitted on a name, its file holds what it held at the start followed by
\* the line of every append that completed, also of the appends accepted
\* while the registration of the name was still in progress.
Cex_C35 ==
  \A n \in Names :
    NeverTruncated(n) => content[n] = FoldOk(n, content0[n], 1, Len(ops))

\* the lines of the appends submitted after the registration had ended stay
\* in the file as long as no truncate is submitted
KeptAfterRegistration ==
  \A n \in Names :
    (NeverTruncated(n) /\ AfterRegistration(n))
      => content[n] = FoldOk(n, content0[n], 1, Len(ops))

\* C36: a name is recorded as registered only once its backing file exists,
\* and a register call that failed with an I/O error leaves the name
\* unregistered unless another register call recorded it.
Cex_C36 ==
  /\ \A n \in logs : exists[n]
  /\ \A i \in DOMAIN regs :
       regs[i].pc = "err" =>
         (regs[i].name \in logs =>
            \E k \in DOMAIN regs : k # i /\ regs[k].name = regs[i].name
                                   /\ regs[k].pc \in {"access", "write", "ok"})

\* the records of replay call c that were given up, in window order
FailedRecords(c) ==
  SelectSeq([i \in DOMAIN replays[c].recs |-> i],
            LAMBDA i : replays[c].recs[i].st = "failed")

\* C37: the errors of a ReplayResult hold one entry per failed record, in
\* window order, with the record's event and attemptCount = maxRetries + 1;
\* so there are failedCount of them, and none exactly when success is true.
Cex_C37 ==
  \A c \in DOMAIN replays :
    LET result == replays[c].result
        failed == FailedRecords(c)
    IN /\ Len(result.errors) = Len(failed)
       /\ \A k \in DOMAIN result.errors :
            /\ k <= Len(failed)
            /\ result.errors[k].event = replays[c].window[failed[k]]
            /\ result.errors[k].attemptCount = retryConfig[replays[c].eng].maxRetries + 1
       /\ Len(result.errors) = result.failedCount
       /\ (result.errors = <<>>) <=> result.success

\* the replay calls whose read of the log has returned and which have not
\* been forgotten
WindowedCalls ==
  {c \in DOMAIN replays : replays[c].st \in {"processing", "done"} /\ replays[c].rd # 0}

\* C38: the window of a replay call is the last min(count, available)
\* non-blank lines of what its one read of the log returned, whatever appends
\* and truncates have done to the file since: the records it works on, the
\* records it invokes the processor on and the counts of its result are those
\* of that window.
Thm_C38 ==
  \A c \in WindowedCalls :
    LET w == LastMin(NonBlankLines(reads[replays[c].rd].result), replays[c].count)
        result == replays[c].result
    IN /\ reads[replays[c].rd].st = "ok"
       /\ replays[c].window = w
       /\ Len(replays[c].recs) = Len(w)
       /\ \A p \in DOMAIN replays[c].log : replays[c].log[p].rec \in 1 .. Len(w)
       /\ result.processedCount + result.failedCount <= Len(w)
       /\ replays[c].st = "done" =>
            /\ result.processedCount + result.failedCount = Len(w)
            /\ \A i \in 1 .. Len(w) : Count(c, "invoke", i) >= 1

\* a call with a window of two records returned after a truncate emptied
\* the file during its processing
Wit_C38 ==
  \E c \in WindowedCalls :
    /\ replays[c].st = "done"
    /\ Len(replays[c].window) = 2
    /\ replays[c].result.processedCount + replays[c].result.failedCount = 2
    /\ content["a"] = <<>>
    /\ \E t \in DOMAIN ops : ops[t].kind = "truncate" /\ ops[t].st = "ok"
                             /\ reads[replays[c].rd].done < t

\* line decodes as JSON but not to an object with a data member
NoEnvelope(line) ==
  /\ JsonParse(line).ok
  /\ DataOf(JsonParse(line).v) = JUndefined

\* C39: every payload inspect returns and every argument DurableWal.replay
\* passes to the caller's processor is a string, and a selected line that is
\* JSON without a data member is delivered as the line itself.
Cex_C39 ==
  /\ \A q \in DOMAIN inspects :
       inspects[q].st = "ok" =>
         \A i \in DOMAIN inspects[q].result :
           /\ inspects[q].result[i].t = "str"
           /\ NoEnvelope(InspectWanted(q)[i]) =>
                inspects[q].result[i] = JStr(InspectWanted(q)[i])
  /\ \A c \in DOMAIN replays :
       \A p \in DOMAIN replays[c].plog :
         LET inv == replays[c].plog[p] IN
         /\ inv.arg.t = "str"
         /\ NoEnvelope(replays[c].window[inv.rec]) =>
              inv.arg = JStr(replays[c].window[inv.rec])

====
